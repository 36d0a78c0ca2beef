--------------------------- MODULE ShutdownFence ---------------------------
(***************************************************************************)
(* What the daemon promises about Quit, with no atomics, locks or polling. *)
(* Work (a sync pipeline or an admitted mutation) may start only while the *)
(* fence is open; a failed launch-fence write reopens it; once Quit is     *)
(* committed nothing starts any more, and the daemon may tear down only    *)
(* when the last piece of admitted work has ended.                         *)
(*                                                                         *)
(* Admission implements this specification: see Admission!Fence.           *)
(***************************************************************************)

CONSTANT Workers      \* everything that can hold an admission guard

VARIABLES
  fence,              \* "open", "fenced", "committed" or "drained"
  working             \* the workers that hold an admission

fenceVars == <<fence, working>>

FenceTypeOK ==
  /\ fence \in {"open", "fenced", "committed", "drained"}
  /\ working \subseteq Workers

FenceInit ==
  /\ fence = "open"
  /\ working = {}

Start(w) ==
  /\ fence = "open"
  /\ w \notin working
  /\ working' = working \cup {w}
  /\ UNCHANGED fence

End(w) ==
  /\ w \in working
  /\ working' = working \ {w}
  /\ UNCHANGED fence

Close  == fence = "open"   /\ fence' = "fenced"    /\ UNCHANGED working
Reopen == fence = "fenced" /\ fence' = "open"      /\ UNCHANGED working
Commit == fence = "fenced" /\ fence' = "committed" /\ UNCHANGED working

Drain ==
  /\ fence = "committed"
  /\ working = {}
  /\ fence' = "drained"
  /\ UNCHANGED working

FenceNext ==
  \/ \E w \in Workers : Start(w) \/ End(w)
  \/ Close \/ Reopen \/ Commit \/ Drain

FenceSpec == FenceInit /\ [][FenceNext]_fenceVars
=============================================================================
