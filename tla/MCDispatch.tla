----------------------------- MODULE MCDispatch -----------------------------
(***************************************************************************)
(* A small instance of Dispatch: two calls for the same instruction, one   *)
(* that prefers the hook and one that types itself, and one hook.          *)
(***************************************************************************)
EXTENDS Dispatch, TLC

CONSTANTS c1, c2, h1

MCCalls == {c1, c2}
MCHook == {h1}
MCDirect == {c2}
MCSameKey == (c1 :> 1 @@ c2 :> 1)
=============================================================================
