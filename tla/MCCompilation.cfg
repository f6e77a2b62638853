SPECIFICATION Spec
CONSTANTS
  Columns <- SomeColumns
  Bindings <- SomeBindings
  Catalog <- SomeCatalog
  Relationships <- SomeRelationships
  NoKey <- Keyless
  Published <- SomePublished
  TimeRoles <- SomeTimeRoles
  TenantKeys <- SomeTenantKeys
  Values <- SomeValues
  Plans <- SomePlans
  Permissions <- SomePermissions
  Warehouses <- SomeWarehouses
  Tampered <- SomeTampered
  ScopeOfRequest <- ThisScope
INVARIANTS
  AnswersAreExact
  AttestedExactly
  SoundPlansAccepted
  DefectsStayGoverned
CHECK_DEADLOCK FALSE
