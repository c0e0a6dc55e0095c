------------------------------ MODULE MCDbSync ------------------------------
(***************************************************************************)
(* Instances of DbSync for TLC: the servers they consider.                 *)
(***************************************************************************)
EXTENDS DbSync

AnyFailure == {"down", "error", "timeout"}

Server(mode, forced, failures) ==
  [mode |-> mode, forced |-> forced, failures |-> failures]

(* Writes alone, with a healthy, a missing and a faulty Emacs; forced syncs *)
(* queued behind them; forced syncs that their callers give up.             *)
MCSettings == {
  Server("client-only", {}, {}),
  Server("never", {}, {}),
  Server("full", {}, AnyFailure),
  Server("full", {"queued"}, {"down", "error"}),
  Server("client-only", {"queued", "blocking"}, AnyFailure),
  Server("full", {"blocking"}, {"down"}) }

(* For the run that looks for one violation. *)
Queued == { Server("client-only", {"queued"}, {}) }
=============================================================================
