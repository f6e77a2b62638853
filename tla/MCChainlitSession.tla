-------------------------- MODULE MCChainlitSession --------------------------
(***************************************************************************)
(* A small instance of ChainlitSession: one chat and three messages, enough *)
(* for an owner and two waiters of a lock, any of which may be sent before  *)
(* on_chat_start has its runtime.                                           *)
(***************************************************************************)
EXTENDS ChainlitSession

CONSTANTS s1, m1, m2, m3

MCSessions == {s1}
MCMessages == {m1, m2, m3}
MCSessionOf == [m \in MCMessages |-> s1]

=============================================================================
