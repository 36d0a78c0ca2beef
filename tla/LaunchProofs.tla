---------------------------- MODULE LaunchProofs ----------------------------
(***************************************************************************)
(* Theorems about DaemonLaunch: the type invariant, that a ready daemon is *)
(* alone and can be found, and that a fenced launch stays down, for every  *)
(* set of launches and every bound.                                        *)
(*                                                                         *)
(* The inductive invariant says what each lock protects. A process is      *)
(* between its election and the end of its drop exactly while it is the    *)
(* owner (Locked); so it is the only one that writes owner.json and the    *)
(* launch generation, and what it has found there stays true (Discoverable, *)
(* UnderGeneration). It holds the lock of the tickets exactly while it is  *)
(* about to publish, and no ticket is cancelled meanwhile (Fenced). A      *)
(* thread writes a ticket and spawns its process once (Unspawned). A core  *)
(* runs in the owner, or in a process that has failed and is about to say  *)
(* so (CoreHeld).                                                          *)
(***************************************************************************)
EXTENDS DaemonLaunch, TLAPS

Locked ==
  /\ \A l \in Launches : proc[l] \in Owning <=> owner = l
  /\ owner = NoLaunch \/ probe = NoLaunch

Fenced ==
  /\ \A l \in Launches : proc[l] = "fenced" <=> fence = l
  /\ \A l \in Launches : fence = l => ticket[l] # "cancelled"

Discoverable == \A l \in Launches : proc[l] \in Published => descriptor = l

UnderGeneration ==
  \A l \in Launches : proc[l] \in Starting \ {"elected"} => expected[l] = generation

Unspawned ==
  /\ \A l \in Launches :
       ui[l] \in {"idle", "clearing", "probing", "launching"} => ticket[l] = "none"
  /\ \A l \in Launches : ticket[l] = "none" /\ ui[l] # "direct" => proc[l] = "none"

CoreHeld == \A l \in core : proc[l] \in (Owning \ {"leaving"}) \cup {"reporting"}

LaunchInv ==
  /\ LaunchTypeOK /\ Locked /\ Fenced /\ Discoverable /\ UnderGeneration /\ Unspawned
  /\ CoreHeld

\* No launch has started: everything holds.
LEMMA LaunchInitially == LaunchInit => LaunchInv
<1> SUFFICES ASSUME LaunchInit PROVE LaunchInv
  OBVIOUS
<1> USE LaunchAssumption DEF LaunchInit
<1>1. LaunchTypeOK
  <2>1. 0 \in 0..MaxGeneration /\ 0 \in 0..MaxCrashes
    OBVIOUS
  <2>2. found \in [{"ui", "proc"} -> [Launches -> LaunchOrNone]]
    BY DEF LaunchOrNone
  <2>3. QED  BY <2>1, <2>2 DEF LaunchTypeOK, LaunchOrNone, UiStates, ProcStates, Over
<1>2. Locked /\ Fenced /\ Discoverable /\ UnderGeneration /\ Unspawned /\ CoreHeld
  BY DEF Locked, Owning, Fenced, Discoverable, UnderGeneration, Unspawned, CoreHeld, Starting,
         Published, Dropping
<1>3. QED  BY <1>1, <1>2 DEF LaunchInv

\* A thread of the UI holds the lock only to look, and starts a process once.
LEMMA UiKeeps ==
  ASSUME LaunchInv, NEW l \in Launches, UiNext(l)
  PROVE  LaunchInv'
<1> USE DEF LaunchInv
<1>1. CASE UiBegin(l)
  <2> USE <1>1
  <2>1. LaunchTypeOK'
    BY LaunchAssumption DEF LaunchTypeOK, LaunchOrNone, UiStates, ProcStates, Candidates,
         Owning, Starting, Published, Dropping, Over, UiBegin, Goes, files
  <2>2. Unspawned'
    BY LaunchAssumption DEF LaunchTypeOK, LaunchOrNone, Unspawned, UiBegin, Goes, files
  <2>3. Locked' /\ Fenced' /\ Discoverable' /\ UnderGeneration'
    BY DEF Locked, Owning, Fenced, Discoverable, UnderGeneration, UiBegin, Goes, files
  <2>4. CoreHeld'
    BY LaunchAssumption DEF LaunchTypeOK, LaunchOrNone, CoreHeld, Locked, Owning,
         Starting, Published, Dropping, UiBegin, Goes, files
  <2>5. QED  BY <2>1, <2>2, <2>3, <2>4 DEF LaunchInv
<1>2. CASE UiClear(l)
  <2> USE <1>2
  <2>1. LaunchTypeOK'
    BY LaunchAssumption DEF LaunchTypeOK, LaunchOrNone, UiStates, ProcStates, Candidates,
         Owning, Starting, Published, Dropping, Over, UiClear, CancelTicket, Goes, files,
         Cancelled
  <2>2. Fenced'
    BY LaunchAssumption DEF LaunchTypeOK, LaunchOrNone, Fenced, UiClear, CancelTicket,
         Goes, files, Cancelled
  <2>3. UnderGeneration'
    BY LaunchAssumption DEF LaunchTypeOK, LaunchOrNone, UnderGeneration, Locked, Owning,
         Unspawned, Starting, Published, Dropping, UiClear, CancelTicket, Goes, files,
         Cancelled
  <2>4. Unspawned'
    BY LaunchAssumption DEF LaunchTypeOK, LaunchOrNone, Unspawned, UiClear, CancelTicket,
         Goes, files, Cancelled
  <2>5. Locked' /\ Discoverable'
    BY DEF Locked, Owning, Discoverable, UiClear, CancelTicket, Goes, files, Cancelled
  <2>6. CoreHeld'
    BY LaunchAssumption DEF LaunchTypeOK, LaunchOrNone, CoreHeld, Locked, Owning,
         Starting, Published, Dropping, UiClear, CancelTicket, Goes, files, Cancelled
  <2>7. QED  BY <2>1, <2>2, <2>3, <2>4, <2>5, <2>6 DEF LaunchInv
<1>3. CASE UiLook(l)
  <2> USE <1>3
  <2>1. LaunchTypeOK'
    BY LaunchAssumption DEF LaunchTypeOK, LaunchOrNone, UiStates, ProcStates, Candidates,
         Owning, Starting, Published, Dropping, Over, UiLook, Goes, files
  <2>2. Unspawned'
    BY LaunchAssumption DEF LaunchTypeOK, LaunchOrNone, Unspawned, UiLook, Goes, files
  <2>3. Locked' /\ Fenced' /\ Discoverable' /\ UnderGeneration'
    BY DEF Locked, Owning, Fenced, Discoverable, UnderGeneration, UiLook, Goes, files
  <2>4. CoreHeld'
    BY LaunchAssumption DEF LaunchTypeOK, LaunchOrNone, CoreHeld, Locked, Owning,
         Starting, Published, Dropping, UiLook, Goes, files
  <2>5. QED  BY <2>1, <2>2, <2>3, <2>4 DEF LaunchInv
<1>4. CASE UiRefused(l)
  <2> USE <1>4
  <2>1. LaunchTypeOK'
    BY LaunchAssumption DEF LaunchTypeOK, LaunchOrNone, UiStates, ProcStates, Candidates,
         Owning, Starting, Published, Dropping, Over, UiRefused, Goes, files
  <2>2. Unspawned'
    BY LaunchAssumption DEF LaunchTypeOK, LaunchOrNone, Unspawned, UiRefused, Goes, files
  <2>3. Locked' /\ Fenced' /\ Discoverable' /\ UnderGeneration'
    BY DEF Locked, Owning, Fenced, Discoverable, UnderGeneration, UiRefused, Goes, files
  <2>4. CoreHeld'
    BY LaunchAssumption DEF LaunchTypeOK, LaunchOrNone, CoreHeld, Locked, Owning,
         Starting, Published, Dropping, UiRefused, Goes, files
  <2>5. QED  BY <2>1, <2>2, <2>3, <2>4 DEF LaunchInv
<1>5. CASE UiTimeout(l)
  <2> USE <1>5
  <2>1. LaunchTypeOK'
    BY LaunchAssumption DEF LaunchTypeOK, LaunchOrNone, UiStates, ProcStates, Candidates,
         Owning, Starting, Published, Dropping, Over, UiTimeout, Goes, files
  <2>2. Unspawned'
    BY LaunchAssumption DEF LaunchTypeOK, LaunchOrNone, Unspawned, UiTimeout, Goes, files
  <2>3. Locked' /\ Fenced' /\ Discoverable' /\ UnderGeneration'
    BY DEF Locked, Owning, Fenced, Discoverable, UnderGeneration, UiTimeout, Goes, files
  <2>4. CoreHeld'
    BY LaunchAssumption DEF LaunchTypeOK, LaunchOrNone, CoreHeld, Locked, Owning,
         Starting, Published, Dropping, UiTimeout, Goes, files
  <2>5. QED  BY <2>1, <2>2, <2>3, <2>4 DEF LaunchInv
<1>6. CASE UiAsk(l)
  <2> USE <1>6
  <2>1. LaunchTypeOK'
    BY LaunchAssumption DEF LaunchTypeOK, LaunchOrNone, UiStates, ProcStates, Candidates,
         Owning, Starting, Published, Dropping, Over, UiAsk, Answers, Goes, files
  <2>2. Unspawned'
    BY LaunchAssumption DEF LaunchTypeOK, LaunchOrNone, Unspawned, UiAsk, Answers, Goes,
         files
  <2>3. Locked' /\ Fenced' /\ Discoverable' /\ UnderGeneration'
    BY DEF Locked, Owning, Fenced, Discoverable, UnderGeneration, UiAsk, Answers, Goes,
         files
  <2>4. CoreHeld'
    BY LaunchAssumption DEF LaunchTypeOK, LaunchOrNone, CoreHeld, Locked, Owning,
         Starting, Published, Dropping, UiAsk, Answers, Goes, files
  <2>5. QED  BY <2>1, <2>2, <2>3, <2>4 DEF LaunchInv
<1>7. CASE UiElect(l)
  <2> USE <1>7
  <2>1. LaunchTypeOK'
    BY LaunchAssumption DEF LaunchTypeOK, LaunchOrNone, UiStates, ProcStates, Candidates,
         Owning, Starting, Published, Dropping, Over, UiElect, Goes, LockFree
  <2>2. Locked'
    BY LaunchAssumption DEF LaunchTypeOK, LaunchOrNone, Locked, Owning, Starting,
         Published, Dropping, UiElect, Goes, LockFree
  <2>3. Unspawned'
    BY LaunchAssumption DEF LaunchTypeOK, LaunchOrNone, Unspawned, UiElect, Goes, LockFree
  <2>4. Fenced' /\ Discoverable' /\ UnderGeneration'
    BY DEF Fenced, Discoverable, UnderGeneration, UiElect, Goes, LockFree
  <2>5. CoreHeld'
    BY LaunchAssumption DEF LaunchTypeOK, LaunchOrNone, CoreHeld, Locked, Owning,
         Starting, Published, Dropping, UiElect, Goes, LockFree
  <2>6. QED  BY <2>1, <2>2, <2>3, <2>4, <2>5 DEF LaunchInv
<1>8. CASE UiVerify(l)
  <2> USE <1>8
  <2>1. LaunchTypeOK'
    BY LaunchAssumption DEF LaunchTypeOK, LaunchOrNone, UiStates, ProcStates, Candidates,
         Owning, Starting, Published, Dropping, Over, UiVerify, Goes
  <2>2. Locked'
    BY LaunchAssumption DEF LaunchTypeOK, LaunchOrNone, Locked, Owning, Starting,
         Published, Dropping, UiVerify, Goes
  <2>3. Unspawned'
    BY LaunchAssumption DEF LaunchTypeOK, LaunchOrNone, Unspawned, UiVerify, Goes
  <2>4. Fenced' /\ Discoverable' /\ UnderGeneration'
    BY DEF Fenced, Discoverable, UnderGeneration, UiVerify, Goes
  <2>5. CoreHeld'
    BY LaunchAssumption DEF LaunchTypeOK, LaunchOrNone, CoreHeld, Locked, Owning,
         Starting, Published, Dropping, UiVerify, Goes
  <2>6. QED  BY <2>1, <2>2, <2>3, <2>4, <2>5 DEF LaunchInv
<1>9. CASE UiLaunch(l)
  <2> USE <1>9
  <2>1. LaunchTypeOK'
    BY LaunchAssumption DEF LaunchTypeOK, LaunchOrNone, UiStates, ProcStates, Candidates,
         Owning, Starting, Published, Dropping, Over, UiLaunch, Goes, files
  <2>2. Locked'
    BY LaunchAssumption DEF LaunchTypeOK, LaunchOrNone, Locked, Owning, Unspawned,
         Starting, Published, Dropping, UiLaunch, Goes, files
  <2>3. Fenced'
    BY LaunchAssumption DEF LaunchTypeOK, LaunchOrNone, Fenced, Unspawned, UiLaunch, Goes,
         files
  <2>4. Discoverable'
    BY LaunchAssumption DEF LaunchTypeOK, LaunchOrNone, Discoverable, Locked, Owning,
         Starting, Published, Dropping, UiLaunch, Goes, files
  <2>5. UnderGeneration'
    BY LaunchAssumption DEF LaunchTypeOK, LaunchOrNone, UnderGeneration, Locked, Owning,
         Unspawned, Starting, Published, Dropping, UiLaunch, Goes, files
  <2>6. Unspawned'
    BY LaunchAssumption DEF LaunchTypeOK, LaunchOrNone, Unspawned, UiLaunch, Goes, files
  <2>7. CoreHeld'
    BY LaunchAssumption DEF LaunchTypeOK, LaunchOrNone, CoreHeld, Locked, Owning, Unspawned,
         Starting, Published, Dropping, UiLaunch, Goes, files
  <2>8. QED  BY <2>1, <2>2, <2>3, <2>4, <2>5, <2>6, <2>7 DEF LaunchInv
<1>10. CASE UiOutdated(l)
  <2> USE <1>10
  <2>1. LaunchTypeOK'
    BY LaunchAssumption DEF LaunchTypeOK, LaunchOrNone, UiStates, ProcStates, Candidates,
         Owning, Starting, Published, Dropping, Over, UiOutdated, Goes, files
  <2>2. Unspawned'
    BY LaunchAssumption DEF LaunchTypeOK, LaunchOrNone, Unspawned, UiOutdated, Goes, files
  <2>3. Locked' /\ Fenced' /\ Discoverable' /\ UnderGeneration'
    BY DEF Locked, Owning, Fenced, Discoverable, UnderGeneration, UiOutdated, Goes, files
  <2>4. CoreHeld'
    BY LaunchAssumption DEF LaunchTypeOK, LaunchOrNone, CoreHeld, Locked, Owning,
         Starting, Published, Dropping, UiOutdated, Goes, files
  <2>5. QED  BY <2>1, <2>2, <2>3, <2>4 DEF LaunchInv
<1>11. CASE UiEnd(l)
  <2> USE <1>11
  <2>1. LaunchTypeOK'
    BY LaunchAssumption DEF LaunchTypeOK, LaunchOrNone, UiStates, ProcStates, Candidates,
         Owning, Starting, Published, Dropping, Over, UiEnd, CancelTicket, Goes, files,
         Cancelled
  <2>2. Fenced'
    BY LaunchAssumption DEF LaunchTypeOK, LaunchOrNone, Fenced, UiEnd, CancelTicket, Goes,
         files, Cancelled
  <2>3. Unspawned'
    BY LaunchAssumption DEF LaunchTypeOK, LaunchOrNone, Unspawned, UiEnd, CancelTicket,
         Goes, files, Cancelled
  <2>4. Locked' /\ Discoverable' /\ UnderGeneration'
    BY DEF Locked, Owning, Discoverable, UnderGeneration, UiEnd, CancelTicket, Goes,
         files, Cancelled
  <2>5. CoreHeld'
    BY LaunchAssumption DEF LaunchTypeOK, LaunchOrNone, CoreHeld, Locked, Owning,
         Starting, Published, Dropping, UiEnd, CancelTicket, Goes, files, Cancelled
  <2>6. QED  BY <2>1, <2>2, <2>3, <2>4, <2>5 DEF LaunchInv
<1>12. QED  BY <1>1, <1>2, <1>3, <1>4, <1>5, <1>6, <1>7, <1>8, <1>9, <1>10, <1>11 DEF
     UiNext

\* A process goes from its ticket to the lock, to its publication and out again.
LEMMA ProcKeeps ==
  ASSUME LaunchInv, NEW l \in Launches, ProcNext(l)
  PROVE  LaunchInv'
<1> USE DEF LaunchInv
<1>1. CASE Validate(l)
  <2> USE <1>1
  <2>1. LaunchTypeOK'
    BY LaunchAssumption DEF LaunchTypeOK, LaunchOrNone, UiStates, ProcStates, Candidates,
         Owning, Starting, Published, Dropping, Over, Validate, Checked, Becomes, Fails,
         files, uiVars
  <2>2. Locked'
    BY LaunchAssumption DEF LaunchTypeOK, LaunchOrNone, Locked, Owning, Starting,
         Published, Dropping, Validate, Checked, Becomes, Fails, files, uiVars
  <2>3. Fenced'
    BY LaunchAssumption DEF LaunchTypeOK, LaunchOrNone, Fenced, Validate, Checked,
         Becomes, Fails, files, uiVars, Starting, Published
  <2>4. Discoverable'
    BY LaunchAssumption DEF LaunchTypeOK, LaunchOrNone, Discoverable, Locked, Owning,
         Starting, Published, Dropping, Validate, Checked, Becomes, Fails, files, uiVars
  <2>5. UnderGeneration'
    BY LaunchAssumption DEF LaunchTypeOK, LaunchOrNone, UnderGeneration, Locked, Owning,
         Unspawned, Starting, Published, Dropping, Validate, Checked, Becomes, Fails,
         files, uiVars
  <2>6. Unspawned'
    BY LaunchAssumption DEF LaunchTypeOK, LaunchOrNone, Unspawned, Validate, Checked,
         Becomes, Fails, files, uiVars, Starting, Published
  <2>7. CoreHeld'
    BY LaunchAssumption DEF LaunchTypeOK, LaunchOrNone, CoreHeld, Locked, Owning,
         Starting, Published, Dropping, Validate, Checked, Becomes, Fails, files, uiVars
  <2>8. QED  BY <2>1, <2>2, <2>3, <2>4, <2>5, <2>6, <2>7 DEF LaunchInv
<1>2. CASE ValidateOwner(l)
  <2> USE <1>2
  <2>1. LaunchTypeOK'
    BY LaunchAssumption DEF LaunchTypeOK, LaunchOrNone, UiStates, ProcStates, Candidates,
         Owning, Starting, Published, Dropping, Over, ValidateOwner, Checked, Becomes,
         Fails, files, uiVars
  <2>2. Locked'
    BY LaunchAssumption DEF LaunchTypeOK, LaunchOrNone, Locked, Owning, Starting,
         Published, Dropping, ValidateOwner, Checked, Becomes, Fails, files, uiVars
  <2>3. Fenced'
    BY LaunchAssumption DEF LaunchTypeOK, LaunchOrNone, Fenced, ValidateOwner, Checked,
         Becomes, Fails, files, uiVars, Starting, Published
  <2>4. Discoverable'
    BY LaunchAssumption DEF LaunchTypeOK, LaunchOrNone, Discoverable, Locked, Owning,
         Starting, Published, Dropping, ValidateOwner, Checked, Becomes, Fails, files,
         uiVars
  <2>5. UnderGeneration'
    BY LaunchAssumption DEF LaunchTypeOK, LaunchOrNone, UnderGeneration, Locked, Owning,
         Unspawned, Starting, Published, Dropping, ValidateOwner, Checked, Becomes, Fails,
         files, uiVars
  <2>6. Unspawned'
    BY LaunchAssumption DEF LaunchTypeOK, LaunchOrNone, Unspawned, ValidateOwner, Checked,
         Becomes, Fails, files, uiVars, Starting, Published
  <2>7. CoreHeld'
    BY LaunchAssumption DEF LaunchTypeOK, LaunchOrNone, CoreHeld, Locked, Owning,
         Starting, Published, Dropping, ValidateOwner, Checked, Becomes, Fails, files,
         uiVars
  <2>8. QED  BY <2>1, <2>2, <2>3, <2>4, <2>5, <2>6, <2>7 DEF LaunchInv
<1>3. CASE StartCore(l)
  <2> USE <1>3
  <2>1. LaunchTypeOK'
    BY LaunchAssumption DEF LaunchTypeOK, LaunchOrNone, UiStates, ProcStates, Candidates,
         Owning, Starting, Published, Dropping, Over, StartCore, Checked, Becomes, Fails,
         files, uiVars
  <2>2. Locked'
    BY LaunchAssumption DEF LaunchTypeOK, LaunchOrNone, Locked, Owning, Starting,
         Published, Dropping, StartCore, Checked, Becomes, Fails, files, uiVars
  <2>3. Fenced'
    BY LaunchAssumption DEF LaunchTypeOK, LaunchOrNone, Fenced, StartCore, Checked,
         Becomes, Fails, files, uiVars, Starting, Published
  <2>4. Discoverable'
    BY LaunchAssumption DEF LaunchTypeOK, LaunchOrNone, Discoverable, Locked, Owning,
         Starting, Published, Dropping, StartCore, Checked, Becomes, Fails, files, uiVars
  <2>5. UnderGeneration'
    BY LaunchAssumption DEF LaunchTypeOK, LaunchOrNone, UnderGeneration, Locked, Owning,
         Unspawned, Starting, Published, Dropping, StartCore, Checked, Becomes, Fails,
         files, uiVars
  <2>6. Unspawned'
    BY LaunchAssumption DEF LaunchTypeOK, LaunchOrNone, Unspawned, StartCore, Checked,
         Becomes, Fails, files, uiVars, Starting, Published
  <2>7. CoreHeld'
    BY LaunchAssumption DEF LaunchTypeOK, LaunchOrNone, CoreHeld, Locked, Owning,
         Starting, Published, Dropping, StartCore, Checked, Becomes, Fails, files, uiVars
  <2>8. QED  BY <2>1, <2>2, <2>3, <2>4, <2>5, <2>6, <2>7 DEF LaunchInv
<1>4. CASE Elect(l)
  <2> USE <1>4
  <2>1. LaunchTypeOK'
    BY LaunchAssumption DEF LaunchTypeOK, LaunchOrNone, UiStates, ProcStates, Candidates,
         Owning, Starting, Published, Dropping, Over, Elect, LockFree, Becomes, uiVars
  <2>2. Locked'
    BY LaunchAssumption DEF LaunchTypeOK, LaunchOrNone, Locked, Owning, Starting,
         Published, Dropping, Elect, LockFree, Becomes, uiVars
  <2>3. Fenced'
    BY LaunchAssumption DEF LaunchTypeOK, LaunchOrNone, Fenced, Elect, LockFree, Becomes,
         uiVars
  <2>4. Discoverable'
    BY LaunchAssumption DEF LaunchTypeOK, LaunchOrNone, Discoverable, Locked, Owning,
         Starting, Published, Dropping, Elect, LockFree, Becomes, uiVars
  <2>5. UnderGeneration'
    BY LaunchAssumption DEF LaunchTypeOK, LaunchOrNone, UnderGeneration, Locked, Owning,
         Unspawned, Starting, Published, Dropping, Elect, LockFree, Becomes, uiVars
  <2>6. Unspawned'
    BY LaunchAssumption DEF LaunchTypeOK, LaunchOrNone, Unspawned, Elect, LockFree,
         Becomes, uiVars
  <2>7. CoreHeld'
    BY LaunchAssumption DEF LaunchTypeOK, LaunchOrNone, CoreHeld, Locked, Owning,
         Starting, Published, Dropping, Elect, LockFree, Becomes, uiVars
  <2>8. QED  BY <2>1, <2>2, <2>3, <2>4, <2>5, <2>6, <2>7 DEF LaunchInv
<1>5. CASE Verify(l)
  <2> USE <1>5
  <2>1. LaunchTypeOK'
    BY LaunchAssumption DEF LaunchTypeOK, LaunchOrNone, UiStates, ProcStates, Candidates,
         Owning, Starting, Published, Dropping, Over, Verify, Becomes, Fails, files,
         uiVars
  <2>2. Locked'
    BY LaunchAssumption DEF LaunchTypeOK, LaunchOrNone, Locked, Owning, Starting,
         Published, Dropping, Verify, Becomes, Fails, files, uiVars
  <2>3. Fenced'
    BY LaunchAssumption DEF LaunchTypeOK, LaunchOrNone, Fenced, Verify, Becomes, Fails,
         files, uiVars, Starting, Published
  <2>4. Discoverable'
    BY LaunchAssumption DEF LaunchTypeOK, LaunchOrNone, Discoverable, Locked, Owning,
         Starting, Published, Dropping, Verify, Becomes, Fails, files, uiVars
  <2>5. UnderGeneration'
    BY LaunchAssumption DEF LaunchTypeOK, LaunchOrNone, UnderGeneration, Locked, Owning,
         Unspawned, Starting, Published, Dropping, Verify, Becomes, Fails, files, uiVars
  <2>6. Unspawned'
    BY LaunchAssumption DEF LaunchTypeOK, LaunchOrNone, Unspawned, Verify, Becomes, Fails,
         files, uiVars, Starting, Published
  <2>7. CoreHeld'
    BY LaunchAssumption DEF LaunchTypeOK, LaunchOrNone, CoreHeld, Locked, Owning,
         Starting, Published, Dropping, Verify, Becomes, Fails, files, uiVars
  <2>8. QED  BY <2>1, <2>2, <2>3, <2>4, <2>5, <2>6, <2>7 DEF LaunchInv
<1>6. CASE AttachLook(l)
  <2> USE <1>6
  <2>1. LaunchTypeOK'
    BY LaunchAssumption DEF LaunchTypeOK, LaunchOrNone, UiStates, ProcStates, Candidates,
         Owning, Starting, Published, Dropping, Over, AttachLook, Valid, Becomes, files,
         uiVars
  <2>2. Locked'
    BY LaunchAssumption DEF LaunchTypeOK, LaunchOrNone, Locked, Owning, Starting,
         Published, Dropping, AttachLook, Valid, Becomes, files, uiVars
  <2>3. Fenced'
    BY LaunchAssumption DEF LaunchTypeOK, LaunchOrNone, Fenced, AttachLook, Valid,
         Becomes, files, uiVars
  <2>4. Discoverable'
    BY LaunchAssumption DEF LaunchTypeOK, LaunchOrNone, Discoverable, Locked, Owning,
         Starting, Published, Dropping, AttachLook, Valid, Becomes, files, uiVars
  <2>5. UnderGeneration'
    BY LaunchAssumption DEF LaunchTypeOK, LaunchOrNone, UnderGeneration, Locked, Owning,
         Unspawned, Starting, Published, Dropping, AttachLook, Valid, Becomes, files,
         uiVars
  <2>6. Unspawned'
    BY LaunchAssumption DEF LaunchTypeOK, LaunchOrNone, Unspawned, AttachLook, Valid,
         Becomes, files, uiVars
  <2>7. CoreHeld'
    BY LaunchAssumption DEF LaunchTypeOK, LaunchOrNone, CoreHeld, Locked, Owning,
         Starting, Published, Dropping, AttachLook, Valid, Becomes, files, uiVars
  <2>8. QED  BY <2>1, <2>2, <2>3, <2>4, <2>5, <2>6, <2>7 DEF LaunchInv
<1>7. CASE AttachRefused(l)
  <2> USE <1>7
  <2>1. LaunchTypeOK'
    BY LaunchAssumption DEF LaunchTypeOK, LaunchOrNone, UiStates, ProcStates, Candidates,
         Owning, Starting, Published, Dropping, Over, AttachRefused, Fails, files, uiVars,
         Becomes
  <2>2. Locked'
    BY LaunchAssumption DEF LaunchTypeOK, LaunchOrNone, Locked, Owning, Starting,
         Published, Dropping, AttachRefused, Fails, files, uiVars, Becomes
  <2>3. Fenced'
    BY LaunchAssumption DEF LaunchTypeOK, LaunchOrNone, Fenced, AttachRefused, Fails,
         files, uiVars, Becomes, Starting, Published
  <2>4. Discoverable'
    BY LaunchAssumption DEF LaunchTypeOK, LaunchOrNone, Discoverable, Locked, Owning,
         Starting, Published, Dropping, AttachRefused, Fails, files, uiVars, Becomes
  <2>5. UnderGeneration'
    BY LaunchAssumption DEF LaunchTypeOK, LaunchOrNone, UnderGeneration, Locked, Owning,
         Unspawned, Starting, Published, Dropping, AttachRefused, Fails, files, uiVars,
         Becomes
  <2>6. Unspawned'
    BY LaunchAssumption DEF LaunchTypeOK, LaunchOrNone, Unspawned, AttachRefused, Fails,
         files, uiVars, Becomes, Starting, Published
  <2>7. CoreHeld'
    BY LaunchAssumption DEF LaunchTypeOK, LaunchOrNone, CoreHeld, Locked, Owning,
         Starting, Published, Dropping, AttachRefused, Fails, files, uiVars, Becomes
  <2>8. QED  BY <2>1, <2>2, <2>3, <2>4, <2>5, <2>6, <2>7 DEF LaunchInv
<1>8. CASE AttachAsk(l)
  <2> USE <1>8
  <2>1. LaunchTypeOK'
    BY LaunchAssumption DEF LaunchTypeOK, LaunchOrNone, UiStates, ProcStates, Candidates,
         Owning, Starting, Published, Dropping, Over, AttachAsk, Answers, Becomes, Fails,
         files, uiVars
  <2>2. Locked'
    BY LaunchAssumption DEF LaunchTypeOK, LaunchOrNone, Locked, Owning, Starting,
         Published, Dropping, AttachAsk, Answers, Becomes, Fails, files, uiVars
  <2>3. Fenced'
    BY LaunchAssumption DEF LaunchTypeOK, LaunchOrNone, Fenced, AttachAsk, Answers,
         Becomes, Fails, files, uiVars, Starting, Published
  <2>4. Discoverable'
    BY LaunchAssumption DEF LaunchTypeOK, LaunchOrNone, Discoverable, Locked, Owning,
         Starting, Published, Dropping, AttachAsk, Answers, Becomes, Fails, files, uiVars
  <2>5. UnderGeneration'
    BY LaunchAssumption DEF LaunchTypeOK, LaunchOrNone, UnderGeneration, Locked, Owning,
         Unspawned, Starting, Published, Dropping, AttachAsk, Answers, Becomes, Fails,
         files, uiVars
  <2>6. Unspawned'
    BY LaunchAssumption DEF LaunchTypeOK, LaunchOrNone, Unspawned, AttachAsk, Answers,
         Becomes, Fails, files, uiVars, Starting, Published
  <2>7. CoreHeld'
    BY LaunchAssumption DEF LaunchTypeOK, LaunchOrNone, CoreHeld, Locked, Owning,
         Starting, Published, Dropping, AttachAsk, Answers, Becomes, Fails, files, uiVars
  <2>8. QED  BY <2>1, <2>2, <2>3, <2>4, <2>5, <2>6, <2>7 DEF LaunchInv
<1>9. CASE AttachEnd(l)
  <2> USE <1>9
  <2>1. LaunchTypeOK'
    BY LaunchAssumption DEF LaunchTypeOK, LaunchOrNone, UiStates, ProcStates, Candidates,
         Owning, Starting, Published, Dropping, Over, AttachEnd, CancelTicket, Becomes,
         files, uiVars, Cancelled
  <2>2. Locked'
    BY LaunchAssumption DEF LaunchTypeOK, LaunchOrNone, Locked, Owning, Starting,
         Published, Dropping, AttachEnd, CancelTicket, Becomes, files, uiVars, Cancelled
  <2>3. Fenced'
    BY LaunchAssumption DEF LaunchTypeOK, LaunchOrNone, Fenced, AttachEnd, CancelTicket,
         Becomes, files, uiVars, Cancelled
  <2>4. Discoverable'
    BY LaunchAssumption DEF LaunchTypeOK, LaunchOrNone, Discoverable, Locked, Owning,
         Starting, Published, Dropping, AttachEnd, CancelTicket, Becomes, files, uiVars,
         Cancelled
  <2>5. UnderGeneration'
    BY LaunchAssumption DEF LaunchTypeOK, LaunchOrNone, UnderGeneration, Locked, Owning,
         Unspawned, Starting, Published, Dropping, AttachEnd, CancelTicket, Becomes,
         files, uiVars, Cancelled
  <2>6. Unspawned'
    BY LaunchAssumption DEF LaunchTypeOK, LaunchOrNone, Unspawned, AttachEnd,
         CancelTicket, Becomes, files, uiVars, Cancelled
  <2>7. CoreHeld'
    BY LaunchAssumption DEF LaunchTypeOK, LaunchOrNone, CoreHeld, Locked, Owning,
         Starting, Published, Dropping, AttachEnd, CancelTicket, Becomes, files, uiVars,
         Cancelled
  <2>8. QED  BY <2>1, <2>2, <2>3, <2>4, <2>5, <2>6, <2>7 DEF LaunchInv
<1>10. CASE TakeFence(l)
  <2> USE <1>10
  <2>1. LaunchTypeOK'
    BY LaunchAssumption DEF LaunchTypeOK, LaunchOrNone, UiStates, ProcStates, Candidates,
         Owning, Starting, Published, Dropping, Over, TakeFence, Becomes, Fails, uiVars
  <2>2. Locked'
    BY LaunchAssumption DEF LaunchTypeOK, LaunchOrNone, Locked, Owning, Starting,
         Published, Dropping, TakeFence, Becomes, Fails, uiVars
  <2>3. Fenced'
    BY LaunchAssumption DEF LaunchTypeOK, LaunchOrNone, Fenced, TakeFence, Becomes, Fails,
         uiVars, Starting, Published
  <2>4. Discoverable'
    BY LaunchAssumption DEF LaunchTypeOK, LaunchOrNone, Discoverable, Locked, Owning,
         Starting, Published, Dropping, TakeFence, Becomes, Fails, uiVars
  <2>5. UnderGeneration'
    BY LaunchAssumption DEF LaunchTypeOK, LaunchOrNone, UnderGeneration, Locked, Owning,
         Unspawned, Starting, Published, Dropping, TakeFence, Becomes, Fails, uiVars
  <2>6. Unspawned'
    BY LaunchAssumption DEF LaunchTypeOK, LaunchOrNone, Unspawned, TakeFence, Becomes,
         Fails, uiVars, Starting, Published
  <2>7. CoreHeld'
    BY LaunchAssumption DEF LaunchTypeOK, LaunchOrNone, CoreHeld, Locked, Owning,
         Starting, Published, Dropping, TakeFence, Becomes, Fails, uiVars
  <2>8. QED  BY <2>1, <2>2, <2>3, <2>4, <2>5, <2>6, <2>7 DEF LaunchInv
<1>11. CASE Publish(l)
  <2> USE <1>11
  <2>1. LaunchTypeOK'
    BY LaunchAssumption DEF LaunchTypeOK, LaunchOrNone, UiStates, ProcStates, Candidates,
         Owning, Starting, Published, Dropping, Over, Publish, Becomes, uiVars
  <2>2. Locked'
    BY LaunchAssumption DEF LaunchTypeOK, LaunchOrNone, Locked, Owning, Starting,
         Published, Dropping, Publish, Becomes, uiVars
  <2>3. Fenced'
    BY LaunchAssumption DEF LaunchTypeOK, LaunchOrNone, Fenced, Publish, Becomes, uiVars
  <2>4. Discoverable'
    BY LaunchAssumption DEF LaunchTypeOK, LaunchOrNone, Discoverable, Locked, Owning,
         Starting, Published, Dropping, Publish, Becomes, uiVars
  <2>5. UnderGeneration'
    BY LaunchAssumption DEF LaunchTypeOK, LaunchOrNone, UnderGeneration, Locked, Owning,
         Unspawned, Starting, Published, Dropping, Publish, Becomes, uiVars
  <2>6. Unspawned'
    BY LaunchAssumption DEF LaunchTypeOK, LaunchOrNone, Unspawned, Publish, Becomes,
         uiVars
  <2>7. CoreHeld'
    BY LaunchAssumption DEF LaunchTypeOK, LaunchOrNone, CoreHeld, Locked, Owning,
         Starting, Published, Dropping, Publish, Becomes, uiVars
  <2>8. QED  BY <2>1, <2>2, <2>3, <2>4, <2>5, <2>6, <2>7 DEF LaunchInv
<1>12. CASE ConsumeTicket(l)
  <2> USE <1>12
  <2>1. LaunchTypeOK'
    BY LaunchAssumption DEF LaunchTypeOK, LaunchOrNone, UiStates, ProcStates, Candidates,
         Owning, Starting, Published, Dropping, Over, ConsumeTicket, Cancelled, Becomes,
         Fails, files, uiVars
  <2>2. Locked'
    BY LaunchAssumption DEF LaunchTypeOK, LaunchOrNone, Locked, Owning, Starting,
         Published, Dropping, ConsumeTicket, Cancelled, Becomes, Fails, files, uiVars
  <2>3. Fenced'
    BY LaunchAssumption DEF LaunchTypeOK, LaunchOrNone, Fenced, ConsumeTicket, Cancelled,
         Becomes, Fails, files, uiVars, Starting, Published
  <2>4. Discoverable'
    BY LaunchAssumption DEF LaunchTypeOK, LaunchOrNone, Discoverable, Locked, Owning,
         Starting, Published, Dropping, ConsumeTicket, Cancelled, Becomes, Fails, files,
         uiVars
  <2>5. UnderGeneration'
    BY LaunchAssumption DEF LaunchTypeOK, LaunchOrNone, UnderGeneration, Locked, Owning,
         Unspawned, Starting, Published, Dropping, ConsumeTicket, Cancelled, Becomes,
         Fails, files, uiVars
  <2>6. Unspawned'
    BY LaunchAssumption DEF LaunchTypeOK, LaunchOrNone, Unspawned, ConsumeTicket,
         Cancelled, Becomes, Fails, files, uiVars, Starting, Published
  <2>7. CoreHeld'
    BY LaunchAssumption DEF LaunchTypeOK, LaunchOrNone, CoreHeld, Locked, Owning,
         Starting, Published, Dropping, ConsumeTicket, Cancelled, Becomes, Fails, files,
         uiVars
  <2>8. QED  BY <2>1, <2>2, <2>3, <2>4, <2>5, <2>6, <2>7 DEF LaunchInv
<1>13. CASE DropDescriptor(l)
  <2> USE <1>13
  <2>1. LaunchTypeOK'
    BY LaunchAssumption DEF LaunchTypeOK, LaunchOrNone, UiStates, ProcStates, Candidates,
         Owning, Starting, Published, Dropping, Over, DropDescriptor, Becomes, uiVars
  <2>2. Locked'
    BY LaunchAssumption DEF LaunchTypeOK, LaunchOrNone, Locked, Owning, Starting,
         Published, Dropping, DropDescriptor, Becomes, uiVars
  <2>3. Fenced'
    BY LaunchAssumption DEF LaunchTypeOK, LaunchOrNone, Fenced, DropDescriptor, Becomes,
         uiVars
  <2>4. Discoverable'
    BY LaunchAssumption DEF LaunchTypeOK, LaunchOrNone, Discoverable, Locked, Owning,
         Starting, Published, Dropping, DropDescriptor, Becomes, uiVars
  <2>5. UnderGeneration'
    BY LaunchAssumption DEF LaunchTypeOK, LaunchOrNone, UnderGeneration, Locked, Owning,
         Unspawned, Starting, Published, Dropping, DropDescriptor, Becomes, uiVars
  <2>6. Unspawned'
    BY LaunchAssumption DEF LaunchTypeOK, LaunchOrNone, Unspawned, DropDescriptor,
         Becomes, uiVars
  <2>7. CoreHeld'
    BY LaunchAssumption DEF LaunchTypeOK, LaunchOrNone, CoreHeld, Locked, Owning,
         Starting, Published, Dropping, DropDescriptor, Becomes, uiVars
  <2>8. QED  BY <2>1, <2>2, <2>3, <2>4, <2>5, <2>6, <2>7 DEF LaunchInv
<1>14. CASE DropLock(l)
  <2> USE <1>14
  <2>1. LaunchTypeOK'
    BY LaunchAssumption DEF LaunchTypeOK, LaunchOrNone, UiStates, ProcStates, Candidates,
         Owning, Starting, Published, Dropping, Over, DropLock, Becomes, uiVars
  <2>2. Locked'
    BY LaunchAssumption DEF LaunchTypeOK, LaunchOrNone, Locked, Owning, Starting,
         Published, Dropping, DropLock, Becomes, uiVars
  <2>3. Fenced'
    BY LaunchAssumption DEF LaunchTypeOK, LaunchOrNone, Fenced, DropLock, Becomes, uiVars
  <2>4. Discoverable'
    BY LaunchAssumption DEF LaunchTypeOK, LaunchOrNone, Discoverable, Locked, Owning,
         Starting, Published, Dropping, DropLock, Becomes, uiVars
  <2>5. UnderGeneration'
    BY LaunchAssumption DEF LaunchTypeOK, LaunchOrNone, UnderGeneration, Locked, Owning,
         Unspawned, Starting, Published, Dropping, DropLock, Becomes, uiVars
  <2>6. Unspawned'
    BY LaunchAssumption DEF LaunchTypeOK, LaunchOrNone, Unspawned, DropLock, Becomes,
         uiVars
  <2>7. CoreHeld'
    BY LaunchAssumption DEF LaunchTypeOK, LaunchOrNone, CoreHeld, Locked, Owning,
         Starting, Published, Dropping, DropLock, Becomes, uiVars
  <2>8. QED  BY <2>1, <2>2, <2>3, <2>4, <2>5, <2>6, <2>7 DEF LaunchInv
<1>15. CASE Report(l)
  <2> USE <1>15
  <2>1. LaunchTypeOK'
    BY LaunchAssumption DEF LaunchTypeOK, LaunchOrNone, UiStates, ProcStates, Candidates,
         Owning, Starting, Published, Dropping, Over, Report, CancelTicket, Becomes,
         files, uiVars, Cancelled
  <2>2. Locked'
    BY LaunchAssumption DEF LaunchTypeOK, LaunchOrNone, Locked, Owning, Starting,
         Published, Dropping, Report, CancelTicket, Becomes, files, uiVars, Cancelled
  <2>3. Fenced'
    BY LaunchAssumption DEF LaunchTypeOK, LaunchOrNone, Fenced, Report, CancelTicket,
         Becomes, files, uiVars, Cancelled
  <2>4. Discoverable'
    BY LaunchAssumption DEF LaunchTypeOK, LaunchOrNone, Discoverable, Locked, Owning,
         Starting, Published, Dropping, Report, CancelTicket, Becomes, files, uiVars,
         Cancelled
  <2>5. UnderGeneration'
    BY LaunchAssumption DEF LaunchTypeOK, LaunchOrNone, UnderGeneration, Locked, Owning,
         Unspawned, Starting, Published, Dropping, Report, CancelTicket, Becomes, files,
         uiVars, Cancelled
  <2>6. Unspawned'
    BY LaunchAssumption DEF LaunchTypeOK, LaunchOrNone, Unspawned, Report, CancelTicket,
         Becomes, files, uiVars, Cancelled
  <2>7. CoreHeld'
    BY LaunchAssumption DEF LaunchTypeOK, LaunchOrNone, CoreHeld, Locked, Owning,
         Starting, Published, Dropping, Report, CancelTicket, Becomes, files, uiVars,
         Cancelled
  <2>8. QED  BY <2>1, <2>2, <2>3, <2>4, <2>5, <2>6, <2>7 DEF LaunchInv
<1>16. CASE SetUpTray(l)
  <2> USE <1>16
  <2>1. LaunchTypeOK'
    BY LaunchAssumption DEF LaunchTypeOK, LaunchOrNone, UiStates, ProcStates, Candidates,
         Owning, Starting, Published, Dropping, Over, SetUpTray, Becomes, Fails, files,
         uiVars
  <2>2. Locked'
    BY LaunchAssumption DEF LaunchTypeOK, LaunchOrNone, Locked, Owning, Starting,
         Published, Dropping, SetUpTray, Becomes, Fails, files, uiVars
  <2>3. Fenced'
    BY LaunchAssumption DEF LaunchTypeOK, LaunchOrNone, Fenced, SetUpTray, Becomes, Fails,
         files, uiVars, Starting, Published
  <2>4. Discoverable'
    BY LaunchAssumption DEF LaunchTypeOK, LaunchOrNone, Discoverable, Locked, Owning,
         Starting, Published, Dropping, SetUpTray, Becomes, Fails, files, uiVars
  <2>5. UnderGeneration'
    BY LaunchAssumption DEF LaunchTypeOK, LaunchOrNone, UnderGeneration, Locked, Owning,
         Unspawned, Starting, Published, Dropping, SetUpTray, Becomes, Fails, files,
         uiVars
  <2>6. Unspawned'
    BY LaunchAssumption DEF LaunchTypeOK, LaunchOrNone, Unspawned, SetUpTray, Becomes,
         Fails, files, uiVars, Starting, Published
  <2>7. CoreHeld'
    BY LaunchAssumption DEF LaunchTypeOK, LaunchOrNone, CoreHeld, Locked, Owning,
         Starting, Published, Dropping, SetUpTray, Becomes, Fails, files, uiVars
  <2>8. QED  BY <2>1, <2>2, <2>3, <2>4, <2>5, <2>6, <2>7 DEF LaunchInv
<1>17. QED  BY <1>1, <1>2, <1>3, <1>4, <1>5, <1>6, <1>7, <1>8, <1>9, <1>10, <1>11, <1>12,
     <1>13, <1>14, <1>15, <1>16 DEF ProcNext

\* Deadlines, failures, kills and quits leave the locks to the living.
LEMMA EnvKeeps ==
  ASSUME LaunchInv, NEW l \in Launches, EnvNext(l)
  PROVE  LaunchInv'
<1> USE DEF LaunchInv
<1>1. CASE ExpireTicket(l)
  <2> USE <1>1
  <2>1. LaunchTypeOK'
    BY LaunchAssumption DEF LaunchTypeOK, LaunchOrNone, UiStates, ProcStates, Candidates,
         Owning, Starting, Published, Dropping, Over, ExpireTicket, files, uiVars
  <2>2. Fenced'
    BY LaunchAssumption DEF LaunchTypeOK, LaunchOrNone, Fenced, ExpireTicket, files,
         uiVars
  <2>3. Unspawned'
    BY LaunchAssumption DEF LaunchTypeOK, LaunchOrNone, Unspawned, ExpireTicket, files,
         uiVars
  <2>4. Locked' /\ Discoverable' /\ UnderGeneration'
    BY DEF Locked, Owning, Discoverable, UnderGeneration, ExpireTicket, files, uiVars
  <2>5. CoreHeld'
    BY LaunchAssumption DEF LaunchTypeOK, LaunchOrNone, CoreHeld, Locked, Owning,
         Starting, Published, Dropping, ExpireTicket, files, uiVars
  <2>6. QED  BY <2>1, <2>2, <2>3, <2>4, <2>5 DEF LaunchInv
<1>2. CASE DirectStart(l)
  <2> USE <1>2
  <2>1. LaunchTypeOK'
    BY LaunchAssumption DEF LaunchTypeOK, LaunchOrNone, UiStates, ProcStates, Candidates,
         Owning, Starting, Published, Dropping, Over, DirectStart, Goes, Becomes, files
  <2>2. Locked'
    BY LaunchAssumption DEF LaunchTypeOK, LaunchOrNone, Locked, Owning, Unspawned,
         Starting, Published, Dropping, DirectStart, Goes, Becomes, files
  <2>3. Fenced'
    BY LaunchAssumption DEF LaunchTypeOK, LaunchOrNone, Fenced, Unspawned, DirectStart,
         Goes, Becomes, files
  <2>4. Discoverable'
    BY LaunchAssumption DEF LaunchTypeOK, LaunchOrNone, Discoverable, Locked, Owning,
         Starting, Published, Dropping, DirectStart, Goes, Becomes, files
  <2>5. UnderGeneration'
    BY LaunchAssumption DEF LaunchTypeOK, LaunchOrNone, UnderGeneration, Locked, Owning,
         Unspawned, Starting, Published, Dropping, DirectStart, Goes, Becomes, files
  <2>6. Unspawned'
    BY LaunchAssumption DEF LaunchTypeOK, LaunchOrNone, Unspawned, DirectStart, Goes,
         Becomes, files
  <2>7. CoreHeld'
    BY LaunchAssumption DEF LaunchTypeOK, LaunchOrNone, CoreHeld, Locked, Owning, Unspawned,
         Starting, Published, Dropping, DirectStart, Goes, Becomes, files
  <2>8. QED  BY <2>1, <2>2, <2>3, <2>4, <2>5, <2>6, <2>7 DEF LaunchInv
<1>3. CASE DirectTicket(l)
  <2> USE <1>3
  <2>1. LaunchTypeOK'
    BY LaunchAssumption DEF LaunchTypeOK, LaunchOrNone, UiStates, ProcStates, Candidates,
         Owning, Starting, Published, Dropping, Over, DirectTicket, Becomes, files, uiVars
  <2>2. Locked'
    BY LaunchAssumption DEF LaunchTypeOK, LaunchOrNone, Locked, Owning, Starting,
         Published, Dropping, DirectTicket, Becomes, files, uiVars
  <2>3. Fenced'
    BY LaunchAssumption DEF LaunchTypeOK, LaunchOrNone, Fenced, DirectTicket, Becomes,
         files, uiVars
  <2>4. Discoverable'
    BY LaunchAssumption DEF LaunchTypeOK, LaunchOrNone, Discoverable, Locked, Owning,
         Starting, Published, Dropping, DirectTicket, Becomes, files, uiVars
  <2>5. UnderGeneration'
    BY LaunchAssumption DEF LaunchTypeOK, LaunchOrNone, UnderGeneration, Locked, Owning,
         Unspawned, Starting, Published, Dropping, DirectTicket, Becomes, files, uiVars
  <2>6. Unspawned'
    BY LaunchAssumption DEF LaunchTypeOK, LaunchOrNone, Unspawned, DirectTicket, Becomes,
         files, uiVars
  <2>7. CoreHeld'
    BY LaunchAssumption DEF LaunchTypeOK, LaunchOrNone, CoreHeld, Locked, Owning,
         Starting, Published, Dropping, DirectTicket, Becomes, files, uiVars
  <2>8. QED  BY <2>1, <2>2, <2>3, <2>4, <2>5, <2>6, <2>7 DEF LaunchInv
<1>4. CASE StartFails(l)
  <2> USE <1>4
  <2>1. LaunchTypeOK'
    BY LaunchAssumption DEF LaunchTypeOK, LaunchOrNone, UiStates, ProcStates, Candidates,
         Owning, Starting, Published, Dropping, Over, StartFails, Fails, files, uiVars, Becomes
  <2>2. Locked'
    BY LaunchAssumption DEF LaunchTypeOK, LaunchOrNone, Locked, Owning, Starting,
         Published, Dropping, StartFails, Fails, files, uiVars, Becomes
  <2>3. Fenced'
    BY LaunchAssumption DEF LaunchTypeOK, LaunchOrNone, Fenced, StartFails, Fails, files, uiVars,
         Becomes, Starting, Published
  <2>4. Discoverable'
    BY LaunchAssumption DEF LaunchTypeOK, LaunchOrNone, Discoverable, Locked, Owning,
         Starting, Published, Dropping, StartFails, Fails, files, uiVars, Becomes
  <2>5. UnderGeneration'
    BY LaunchAssumption DEF LaunchTypeOK, LaunchOrNone, UnderGeneration, Locked, Owning,
         Unspawned, Starting, Published, Dropping, StartFails, Fails, files, uiVars, Becomes
  <2>6. Unspawned'
    BY LaunchAssumption DEF LaunchTypeOK, LaunchOrNone, Unspawned, StartFails, Fails,
         files, uiVars, Becomes, Starting, Published
  <2>7. CoreHeld'
    BY LaunchAssumption DEF LaunchTypeOK, LaunchOrNone, CoreHeld, Locked, Owning,
         Starting, Published, Dropping, StartFails, Fails, files, uiVars, Becomes
  <2>8. QED  BY <2>1, <2>2, <2>3, <2>4, <2>5, <2>6, <2>7 DEF LaunchInv
<1>5. CASE QuitBegins(l)
  <2> USE <1>5
  <2>1. LaunchTypeOK'
    BY LaunchAssumption DEF LaunchTypeOK, LaunchOrNone, UiStates, ProcStates, Candidates,
         Owning, Starting, Published, Dropping, Over, QuitBegins, Becomes, files, uiVars
  <2>2. Locked'
    BY LaunchAssumption DEF LaunchTypeOK, LaunchOrNone, Locked, Owning, Starting,
         Published, Dropping, QuitBegins, Becomes, files, uiVars
  <2>3. Fenced'
    BY LaunchAssumption DEF LaunchTypeOK, LaunchOrNone, Fenced, QuitBegins, Becomes,
         files, uiVars
  <2>4. Discoverable'
    BY LaunchAssumption DEF LaunchTypeOK, LaunchOrNone, Discoverable, Locked, Owning,
         Starting, Published, Dropping, QuitBegins, Becomes, files, uiVars
  <2>5. UnderGeneration'
    BY LaunchAssumption DEF LaunchTypeOK, LaunchOrNone, UnderGeneration, Locked, Owning,
         Unspawned, Starting, Published, Dropping, QuitBegins, Becomes, files, uiVars
  <2>6. Unspawned'
    BY LaunchAssumption DEF LaunchTypeOK, LaunchOrNone, Unspawned, QuitBegins, Becomes,
         files, uiVars
  <2>7. CoreHeld'
    BY LaunchAssumption DEF LaunchTypeOK, LaunchOrNone, CoreHeld, Locked, Owning,
         Starting, Published, Dropping, QuitBegins, Becomes, files, uiVars
  <2>8. QED  BY <2>1, <2>2, <2>3, <2>4, <2>5, <2>6, <2>7 DEF LaunchInv
<1>6. CASE AdvanceGeneration(l)
  <2> USE <1>6
  <2>1. LaunchTypeOK'
    BY LaunchAssumption DEF LaunchTypeOK, LaunchOrNone, UiStates, ProcStates, Candidates,
         Owning, Starting, Published, Dropping, Over, AdvanceGeneration, Becomes, uiVars
  <2>2. Locked'
    BY LaunchAssumption DEF LaunchTypeOK, LaunchOrNone, Locked, Owning, Starting,
         Published, Dropping, AdvanceGeneration, Becomes, uiVars
  <2>3. Fenced'
    BY LaunchAssumption DEF LaunchTypeOK, LaunchOrNone, Fenced, AdvanceGeneration,
         Becomes, uiVars
  <2>4. Discoverable'
    BY LaunchAssumption DEF LaunchTypeOK, LaunchOrNone, Discoverable, Locked, Owning,
         Starting, Published, Dropping, AdvanceGeneration, Becomes, uiVars
  <2>5. UnderGeneration'
    BY LaunchAssumption DEF LaunchTypeOK, LaunchOrNone, UnderGeneration, Locked, Owning,
         Unspawned, Starting, Published, Dropping, AdvanceGeneration, Becomes, uiVars
  <2>6. Unspawned'
    BY LaunchAssumption DEF LaunchTypeOK, LaunchOrNone, Unspawned, AdvanceGeneration,
         Becomes, uiVars
  <2>7. CoreHeld'
    BY LaunchAssumption DEF LaunchTypeOK, LaunchOrNone, CoreHeld, Locked, Owning,
         Starting, Published, Dropping, AdvanceGeneration, Becomes, uiVars
  <2>8. QED  BY <2>1, <2>2, <2>3, <2>4, <2>5, <2>6, <2>7 DEF LaunchInv
<1>7. CASE AdvanceFails(l)
  <2> USE <1>7
  <2>1. LaunchTypeOK'
    BY LaunchAssumption DEF LaunchTypeOK, LaunchOrNone, UiStates, ProcStates, Candidates,
         Owning, Starting, Published, Dropping, Over, AdvanceFails, Becomes, uiVars
  <2>2. Locked'
    BY LaunchAssumption DEF LaunchTypeOK, LaunchOrNone, Locked, Owning, Starting,
         Published, Dropping, AdvanceFails, Becomes, uiVars
  <2>3. Fenced'
    BY LaunchAssumption DEF LaunchTypeOK, LaunchOrNone, Fenced, AdvanceFails, Becomes,
         uiVars
  <2>4. Discoverable'
    BY LaunchAssumption DEF LaunchTypeOK, LaunchOrNone, Discoverable, Locked, Owning,
         Starting, Published, Dropping, AdvanceFails, Becomes, uiVars
  <2>5. UnderGeneration'
    BY LaunchAssumption DEF LaunchTypeOK, LaunchOrNone, UnderGeneration, Locked, Owning,
         Unspawned, Starting, Published, Dropping, AdvanceFails, Becomes, uiVars
  <2>6. Unspawned'
    BY LaunchAssumption DEF LaunchTypeOK, LaunchOrNone, Unspawned, AdvanceFails, Becomes,
         uiVars
  <2>7. CoreHeld'
    BY LaunchAssumption DEF LaunchTypeOK, LaunchOrNone, CoreHeld, Locked, Owning,
         Starting, Published, Dropping, AdvanceFails, Becomes, uiVars
  <2>8. QED  BY <2>1, <2>2, <2>3, <2>4, <2>5, <2>6, <2>7 DEF LaunchInv
<1>8. CASE Crash(l)
  <2> USE <1>8
  <2>1. LaunchTypeOK'
    BY LaunchAssumption DEF LaunchTypeOK, LaunchOrNone, UiStates, ProcStates, Candidates,
         Owning, Starting, Published, Dropping, Over, Crash, Becomes, uiVars
  <2>2. Locked'
    BY LaunchAssumption DEF LaunchTypeOK, LaunchOrNone, Locked, Owning, Starting,
         Published, Dropping, Over, Crash, Becomes, uiVars
  <2>3. Fenced'
    BY LaunchAssumption DEF LaunchTypeOK, LaunchOrNone, Fenced, Over, Crash, Becomes,
         uiVars
  <2>4. Discoverable'
    BY LaunchAssumption DEF LaunchTypeOK, LaunchOrNone, Discoverable, Locked, Owning,
         Starting, Published, Dropping, Over, Crash, Becomes, uiVars
  <2>5. UnderGeneration'
    BY LaunchAssumption DEF LaunchTypeOK, LaunchOrNone, UnderGeneration, Locked, Owning,
         Unspawned, Starting, Published, Dropping, Over, Crash, Becomes, uiVars
  <2>6. Unspawned'
    BY LaunchAssumption DEF LaunchTypeOK, LaunchOrNone, Unspawned, Over, Crash, Becomes,
         uiVars
  <2>7. CoreHeld'
    BY LaunchAssumption DEF LaunchTypeOK, LaunchOrNone, CoreHeld, Locked, Owning,
         Starting, Published, Dropping, Crash, Becomes, uiVars
  <2>8. QED  BY <2>1, <2>2, <2>3, <2>4, <2>5, <2>6, <2>7 DEF LaunchInv
<1>9. CASE CoreFails(l)
  <2> USE <1>9
  <2>1. LaunchTypeOK'
    BY LaunchAssumption DEF LaunchTypeOK, LaunchOrNone, UiStates, ProcStates, Candidates,
         Owning, Starting, Published, Dropping, Over, CoreFails, Fails, files, uiVars, Becomes
  <2>2. Locked'
    BY LaunchAssumption DEF LaunchTypeOK, LaunchOrNone, Locked, Owning, Starting,
         Published, Dropping, CoreFails, Fails, files, uiVars, Becomes
  <2>3. Fenced'
    BY LaunchAssumption DEF LaunchTypeOK, LaunchOrNone, Fenced, CoreFails, Fails, files, uiVars,
         Becomes, Starting, Published
  <2>4. Discoverable'
    BY LaunchAssumption DEF LaunchTypeOK, LaunchOrNone, Discoverable, Locked, Owning,
         Starting, Published, Dropping, CoreFails, Fails, files, uiVars, Becomes
  <2>5. UnderGeneration'
    BY LaunchAssumption DEF LaunchTypeOK, LaunchOrNone, UnderGeneration, Locked, Owning,
         Unspawned, Starting, Published, Dropping, CoreFails, Fails, files, uiVars, Becomes
  <2>6. Unspawned'
    BY LaunchAssumption DEF LaunchTypeOK, LaunchOrNone, Unspawned, CoreFails, Fails,
         files, uiVars, Becomes, Starting, Published
  <2>7. CoreHeld'
    BY LaunchAssumption DEF LaunchTypeOK, LaunchOrNone, CoreHeld, Locked, Owning,
         Starting, Published, Dropping, CoreFails, Fails, files, uiVars, Becomes
  <2>8. QED  BY <2>1, <2>2, <2>3, <2>4, <2>5, <2>6, <2>7 DEF LaunchInv
<1>10. CASE PublishFails(l)
  <2> USE <1>10
  <2>1. LaunchTypeOK'
    BY LaunchAssumption DEF LaunchTypeOK, LaunchOrNone, UiStates, ProcStates, Candidates,
         Owning, Starting, Published, Dropping, Over, PublishFails, Fails, uiVars, Becomes
  <2>2. Locked'
    BY LaunchAssumption DEF LaunchTypeOK, LaunchOrNone, Locked, Owning, Starting,
         Published, Dropping, PublishFails, Fails, uiVars, Becomes
  <2>3. Fenced'
    BY LaunchAssumption DEF LaunchTypeOK, LaunchOrNone, Fenced, PublishFails, Fails,
         uiVars, Becomes, Starting, Published
  <2>4. Discoverable'
    BY LaunchAssumption DEF LaunchTypeOK, LaunchOrNone, Discoverable, Locked, Owning,
         Starting, Published, Dropping, PublishFails, Fails, uiVars, Becomes
  <2>5. UnderGeneration'
    BY LaunchAssumption DEF LaunchTypeOK, LaunchOrNone, UnderGeneration, Locked, Owning,
         Unspawned, Starting, Published, Dropping, PublishFails, Fails, uiVars, Becomes
  <2>6. Unspawned'
    BY LaunchAssumption DEF LaunchTypeOK, LaunchOrNone, Unspawned, PublishFails, Fails,
         uiVars, Becomes, Starting, Published
  <2>7. CoreHeld'
    BY LaunchAssumption DEF LaunchTypeOK, LaunchOrNone, CoreHeld, Locked, Owning,
         Starting, Published, Dropping, PublishFails, Fails, uiVars, Becomes
  <2>8. QED  BY <2>1, <2>2, <2>3, <2>4, <2>5, <2>6, <2>7 DEF LaunchInv
<1>11. QED  BY <1>1, <1>2, <1>3, <1>4, <1>5, <1>6, <1>7, <1>8, <1>9, <1>10 DEF EnvNext

\* The window is closed, with every attempt in it.
LEMMA CloseKeeps ==
  ASSUME LaunchInv, UiClose \/ UiExit
  PROVE  LaunchInv'
<1> USE DEF LaunchInv
<1>1. CASE UiClose
  <2> USE <1>1
  <2>1. LaunchTypeOK'
    BY LaunchAssumption DEF LaunchTypeOK, LaunchOrNone, UiStates, ProcStates, Candidates,
         Owning, Starting, Published, Dropping, Over, UiClose, files
  <2>2. Locked' /\ Fenced' /\ Discoverable' /\ UnderGeneration' /\ Unspawned' /\ CoreHeld'
    BY DEF Locked, Owning, Fenced, Discoverable, UnderGeneration, Unspawned, CoreHeld, UiClose,
           files
  <2>3. QED  BY <2>1, <2>2 DEF LaunchInv
<1>2. CASE UiExit
  <2> USE <1>2
  <2>1. LaunchTypeOK'
    BY LaunchAssumption DEF LaunchTypeOK, LaunchOrNone, UiStates, ProcStates, Candidates,
         Owning, Starting, Published, Dropping, Over, UiExit, CancelTicket, Cancelled
  <2>2. Locked'
    BY LaunchAssumption DEF LaunchTypeOK, LaunchOrNone, Locked, Owning, Starting, Published,
         Dropping, UiExit, CancelTicket, Cancelled
  <2>3. Fenced'
    BY LaunchAssumption DEF LaunchTypeOK, LaunchOrNone, Fenced, UiExit, CancelTicket, Cancelled
  <2>4. Unspawned'
    BY LaunchAssumption DEF LaunchTypeOK, LaunchOrNone, Unspawned, UiExit, CancelTicket, Cancelled
  <2>5. Discoverable' /\ UnderGeneration' /\ CoreHeld'
    BY DEF CoreHeld, Discoverable, UnderGeneration, UiExit, CancelTicket, Cancelled
  <2>6. QED  BY <2>1, <2>2, <2>3, <2>4, <2>5 DEF LaunchInv
<1>3. QED  BY <1>1, <1>2

\* Every step of the specification.
LEMMA LaunchSteps == LaunchInv /\ [LaunchNext]_vars => LaunchInv'
<1> SUFFICES ASSUME LaunchInv, [LaunchNext]_vars PROVE LaunchInv'
  OBVIOUS
<1>1. CASE UiClose \/ UiExit
  BY <1>1, CloseKeeps
<1>2. ASSUME NEW l \in Launches, UiNext(l) \/ ProcNext(l) \/ EnvNext(l) PROVE LaunchInv'
  BY <1>2, UiKeeps, ProcKeeps, EnvKeeps
<1>3. CASE UNCHANGED vars
  BY <1>3 DEF LaunchInv, LaunchTypeOK, Locked, Owning, Fenced, Discoverable, UnderGeneration,
              Unspawned, CoreHeld, vars, files, uiVars
<1>4. QED  BY <1>1, <1>2, <1>3 DEF LaunchNext

----------------------------------------------------------------------------
\* What the locks protect holds in every state the launches can reach.
THEOREM LaunchInvariant == LaunchSpec => []LaunchInv
BY LaunchInitially, LaunchSteps, PTL DEF LaunchSpec

\* Every variable of the files, the UI and the processes keeps to its type.
THEOREM LaunchTypes == LaunchSpec => []LaunchTypeOK
<1>1. LaunchInv => LaunchTypeOK
  BY DEF LaunchInv
<1>2. QED  BY <1>1, LaunchInvariant, PTL

\* There is one daemon and it can be found, whatever the other launches do.
THEOREM OneDaemonAndItIsFound == LaunchSpec => []ReadyDaemonIsAlone
<1>1. LaunchInv => ReadyDaemonIsAlone
  BY LaunchAssumption DEF LaunchInv, LaunchTypeOK, Locked, Owning, CoreHeld, Discoverable,
                          ReadyDaemonIsAlone
<1>2. QED  BY <1>1, LaunchInvariant, PTL

\* No launch outlives the Quit or the cancellation that came before its start.
THEOREM QuitAndCancelAreFinal == LaunchSpec => FencedLaunchStaysDown
<1> DEFINE Obeys(l) ==
      /\ StartsCore(l) \/ IsPublished(l) => expected[l] = generation
      /\ IsPublished(l) => ticket[l] # "cancelled"
<1>1. ASSUME LaunchInv, [LaunchNext]_vars, NEW k \in Launches PROVE Obeys(k)
  <2> USE <1>1 DEF StartsCore, IsPublished
  <2>1. CASE UNCHANGED vars
    BY <2>1 DEF vars, files
  <2>2. CASE UiClose \/ UiExit
    BY <2>2 DEF UiClose, UiExit, files
  <2>3. ASSUME NEW l \in Launches, UiNext(l) PROVE Obeys(k)
    <3>1. UNCHANGED descriptor
      BY <2>3 DEF UiNext, UiBegin, UiClear, UiLook, UiRefused, UiTimeout, UiAsk, UiElect,
           UiVerify, UiLaunch, UiOutdated, UiEnd, files
    <3>2. ~StartsCore(k)
      BY <2>3 DEF UiNext, UiBegin, UiClear, UiLook, UiRefused, UiTimeout, UiAsk, UiElect,
           UiVerify, UiLaunch, UiOutdated, UiEnd, LaunchInv, LaunchTypeOK
    <3>3. QED  BY <3>1, <3>2
  <2>4. ASSUME NEW l \in Launches, EnvNext(l) PROVE Obeys(k)
    <3>1. CASE PublishFails(l)
      <4>1. proc[l] = "fenced" /\ expected[l] = generation /\ ticket[l] # "cancelled"
        BY <3>1 DEF PublishFails, LaunchInv, UnderGeneration, Starting, Fenced
      <4>2. ~StartsCore(k)
        BY <3>1 DEF PublishFails, Fails, Becomes, LaunchInv, LaunchTypeOK, Starting, Published
      <4>3. IsPublished(k) => k = l
        BY <3>1 DEF PublishFails
      <4>4. QED  BY <4>1, <4>2, <4>3
    <3>2. CASE ~PublishFails(l)
      <4>1. UNCHANGED descriptor
        BY <2>4, <3>2 DEF EnvNext, ExpireTicket, DirectStart, DirectTicket, StartFails, CoreFails,
             QuitBegins, AdvanceGeneration, AdvanceFails, Crash, files
      <4>2. ~StartsCore(k)
        BY <2>4, <3>2 DEF EnvNext, ExpireTicket, DirectStart, DirectTicket, StartFails, CoreFails,
             QuitBegins, AdvanceGeneration, AdvanceFails, Crash, Becomes, Fails, LaunchInv,
             LaunchTypeOK
      <4>3. QED  BY <4>1, <4>2
    <3>3. QED  BY <3>1, <3>2
  <2>5. ASSUME NEW l \in Launches, ProcNext(l) PROVE Obeys(k)
    <3>1. CASE StartCore(l)
      BY <2>5, <3>1 DEF StartCore, Checked, Becomes, Fails, LaunchInv, LaunchTypeOK,
           UnderGeneration, Starting, files
    <3>2. CASE Publish(l)
      BY <2>5, <3>2 DEF Publish, Becomes, LaunchInv, LaunchTypeOK, UnderGeneration, Starting, Fenced
    <3>3. CASE ~StartCore(l) /\ ~Publish(l)
      <4>1. ~IsPublished(k)
        BY <2>5, <3>3, LaunchAssumption
        DEF ProcNext, Validate, Checked, ValidateOwner, Elect, Verify, AttachLook, AttachRefused,
            AttachAsk, AttachEnd, TakeFence, ConsumeTicket, SetUpTray, DropDescriptor, DropLock,
            Report, files
      <4>2. ~StartsCore(k)
        BY <2>5, <3>3
        DEF ProcNext, Validate, Checked, Becomes, Fails, ValidateOwner, Elect, Verify, AttachLook,
            AttachRefused, AttachAsk, AttachEnd, TakeFence, ConsumeTicket, SetUpTray,
            DropDescriptor, DropLock, Report, LaunchInv, LaunchTypeOK
      <4>3. QED  BY <4>1, <4>2
    <3>4. QED  BY <3>1, <3>2, <3>3
  <2>6. QED  BY <1>1, <2>1, <2>2, <2>3, <2>4, <2>5 DEF LaunchNext
<1>2. LaunchInv /\ [LaunchNext]_vars => \A l \in Launches : Obeys(l)
  BY <1>1
<1>3. QED  BY <1>2, LaunchInvariant, PTL DEF LaunchSpec, FencedLaunchStaysDown
=============================================================================
