------------------------------ MODULE LePrivacy ------------------------------
(***************************************************************************)
(* LE scanning (scan_mgr.c) and the resolving list of the controller       *)
(* (ble_privacy.c).  The list may only be changed while address resolution *)
(* is off and nothing scans, advertises or synchronises.  So a bond that   *)
(* comes or goes suspends these activities, waits until they have ended,   *)
(* turns resolution off, changes the list entry by entry, turns resolution *)
(* on again and resumes them.                                              *)
(*                                                                         *)
(* Everything runs in the application task; each of its handlers is an     *)
(* action.  The stack reports changes of the scan state by messages which  *)
(* the task handles later.  Advertising and periodic synchronisation are   *)
(* one activity here, "other".  An operator X_Y before X documents a slip  *)
(* in X that one of the properties would reveal.                           *)
(***************************************************************************)
EXTENDS Naturals, Sequences

CONSTANTS Devs,        \* bonded peers that have an identity key
          RlSize,      \* size of the controller's resolving list
          Attempts,    \* RL_ATTEMPT_COUNT
          MaxClients,  \* bound: clients of bt_adap_start_discovery
          MaxMsgs,     \* bound: messages of the stack under way
          NONE, FREED, FAULT

ASSUME PrivacyAssumption ==
    /\ RlSize \in Nat /\ Attempts \in Nat \ {0}
    /\ MaxClients \in Nat /\ MaxMsgs \in Nat
    /\ Devs \cap {NONE, FREED, FAULT} = {}
    /\ NONE # FREED /\ NONE # FAULT /\ FREED # FAULT

VARIABLES clients,  \* lescan_refcnt; le_scanning says whether it is positive
          scan,     \* scan_mgr, and the stack's side of scanning
          other,    \* the other activities have been suspended, and not resumed
          rl        \* ble_privacy_cb

vars == <<clients, scan, other, rl>>

GapStates == {"idle", "start", "scanning", "stop"}

\* state and enabled: scan_state and scan_enabled; gap: gap_scan_state, the last
\* one the task has heard of; stack, msgs: the state now, and the news of it.
\* refused is no field of the code: a stack that was idle refused the last start,
\* or one that was scanning the last stop.
Scan == [state : {"idle", "suspend", "enable"}, enabled : BOOLEAN,
         gap : GapStates, stack : GapStates, msgs : Seq(GapStates), refused : BOOLEAN]

\* listed, inCtl, removal: rl_list, those in_controller_rl and pending_removal;
\* op: p_rl_op_dev; act: rl_act_state; waits: suspended_rl_state, what is still
\* to end.  gaveUp is no field of the code: a change of resolution that the
\* modification waits for failed.  to_resume is left out, every caller sets it.
Rl == [listed : SUBSET Devs, inCtl : SUBSET Devs, removal : SUBSET Devs,
       avail : 0 .. RlSize, op : Devs \cup {NONE, FREED, FAULT},
       attempt : 0 .. Attempts, gaveUp : BOOLEAN,
       state : {"disable", "enable", "disabling", "enabling"},
       act : SUBSET {"suspend", "modify"}, waits : SUBSET {"scan", "other"}]

TypeOK ==
    /\ clients \in 0 .. MaxClients
    /\ scan \in Scan /\ other \in BOOLEAN
    /\ rl \in Rl /\ rl.inCtl \subseteq rl.listed /\ rl.removal \subseteq rl.inCtl

Init ==
    /\ clients = 0 /\ other = FALSE
    /\ scan = [state |-> "idle", enabled |-> FALSE, gap |-> "idle",
               stack |-> "idle", msgs |-> <<>>, refused |-> FALSE]
    /\ rl = [listed |-> {}, inCtl |-> {}, removal |-> {}, avail |-> RlSize,
             op |-> NONE, attempt |-> 0, gaveUp |-> FALSE, state |-> "disable",
             act |-> {}, waits |-> {}]

-----------------------------------------------------------------------------
(* The scan manager.  le_ext_scan_start and le_ext_scan_stop do nothing in *)
(* any other state of the stack, and may fail in that one (ok); then the   *)
(* manager logs the failure at most and goes on as if it had not happened. *)

To(s, g) == [s EXCEPT !.stack = g, !.msgs = Append(@, g)]

LeCommand(s, from, to, ok) ==
    LET a == [s EXCEPT !.refused = (s.stack = from /\ ~ok)]
    IN  IF s.stack = from /\ ok THEN To(a, to) ELSE a
LeStart(s, ok) == LeCommand(s, "idle", "start", ok)
LeStop(s, ok) == LeCommand(s, "scanning", "stop", ok)

StartReq(s, ok) ==
    LET e == [s EXCEPT !.enabled = TRUE]
    IN  CASE s.state = "idle" -> LeStart([e EXCEPT !.state = "enable"], ok)
          [] s.state = "suspend" -> e
          [] s.state = "enable" -> s

StopReq_Paused(s, ok) ==
    CASE s.state = "enable" -> LeStop([s EXCEPT !.enabled = FALSE, !.state = "idle"], ok)
      [] OTHER -> s
StopReq(s, ok) ==
    LET d == [s EXCEPT !.enabled = FALSE]
    IN  CASE s.state = "idle" -> s
          [] s.state = "suspend" -> LeStop(d, ok)
          [] s.state = "enable" -> LeStop([d EXCEPT !.state = "idle"], ok)

SuspendReq(s, ok) ==
    LET q == [s EXCEPT !.state = "suspend"]
    IN  IF s.state # "suspend" /\ s.gap = "scanning" THEN LeStop(q, ok) ELSE q

\* What le_scan_suspend_req answers: the scan has ended, as far as the task knows.
EndAwaited_Enabled(s) == s.enabled
EndAwaited(s) == s.gap # "idle"

ResumeReq(s, ok) ==
    IF s.state # "idle" /\ s.enabled THEN LeStart([s EXCEPT !.state = "enable"], ok)
    ELSE IF s.state = "suspend" THEN [s EXCEPT !.state = "idle"] ELSE s

\* hdl_scan_state_change, without the call of handle_scan_stop_in_suspend.
StateChange_NoStop(s, ok) == IF s.gap = "idle" /\ s.state = "enable" THEN LeStart(s, ok) ELSE s
StateChange(s, ok) ==
    IF s.gap = "idle" /\ s.state = "enable" THEN LeStart(s, ok)
    ELSE IF s.gap = "scanning" /\ s.state # "enable" THEN LeStop(s, ok) ELSE s

-----------------------------------------------------------------------------
(* The resolving list.  An operator returns the new ble_privacy_cb and     *)
(* whether the activities are resumed.  ok says of each kind of command    *)
(* whether the stack takes it (no handler needs two of a kind), d is the   *)
(* first entry with something to do.                                       *)

Stay(p) == [rl |-> p, resume |-> FALSE]
Rest(p) == [rl |-> [p EXCEPT !.act = {}], resume |-> TRUE]

\* check_rl_to_enable_resolving: resolution is on while there is an entry.
Toggle(p, ok) ==
    IF p.state \in {"disabling", "enabling"} THEN Stay(p)
    ELSE IF ok.resolve /\ p.listed = {} /\ p.state = "enable"
         THEN Stay([p EXCEPT !.state = "disabling"])
    ELSE IF ok.resolve /\ p.listed # {} /\ p.state = "disable"
         THEN Stay([p EXCEPT !.state = "enabling"])
    ELSE Rest(p)

\* The end of a modification, with check_rl_pending_action.
Done(p, ok) ==
    LET e == [p EXCEPT !.attempt = 0, !.act = @ \ {"modify"}]
    IN  IF e.waits = {} THEN Toggle([e EXCEPT !.act = {}], ok) ELSE Stay(e)

\* Resolution has to be off first.
TurnOff(p, ok) ==
    IF p.state # "enable" THEN p
    ELSE IF ok.resolve THEN [p EXCEPT !.state = "disabling"] ELSE [p EXCEPT !.gaveUp = TRUE]

\* execute_rl_dev_operation
Todo(p) == p.removal \cup (p.listed \ p.inCtl)

Blocked_WhileOn(p) == p.state \in {"disabling", "enabling"}
Blocked(p) == p.state # "disable"

Execute(q, d, ok) ==
    LET p == [q EXCEPT !.gaveUp = FALSE]
    IN  IF p.attempt >= Attempts THEN Done(p, ok)
        ELSE IF p.op # NONE THEN Stay(p)
        ELSE IF Todo(p) = {} THEN Done(p, ok)
        ELSE IF Blocked(p) THEN Stay(TurnOff(p, ok))
        ELSE IF ok.modify THEN Stay([p EXCEPT !.op = d]) ELSE Done(p, ok)

\* check_rl_pending_action
Check(p, d, ok) ==
    IF p.waits # {} THEN Stay(p)
    ELSE LET e == [p EXCEPT !.act = @ \ {"suspend"}]
         IN  IF "modify" \in e.act THEN Execute(e, d, ok) ELSE Toggle(e, ok)

\* ble_suspend_resolving_list_activity with the list p to be modified; s is the
\* scan after SuspendReq, ended says whether the other activities have ended by now.
Modify(p, s, d, ok, ended) ==
    LET open == (IF EndAwaited(s) THEN {"scan"} ELSE {}) \cup (IF ended THEN {} ELSE {"other"})
        e == [p EXCEPT !.act = @ \cup {"modify"}, !.waits = open]
    IN  IF e.waits = {} THEN Execute(e, d, ok)
        ELSE Stay([e EXCEPT !.act = @ \cup {"suspend"}])

Oks == [resolve : BOOLEAN, modify : BOOLEAN, scan : BOOLEAN]
Firsts(p) == IF Todo(p) = {} THEN {NONE} ELSE Todo(p)

\* r is the outcome of an operator, s the scan and o the other activities so far.
Becomes(r, s, o, ok) ==
    /\ rl' = r.rl
    /\ scan' = IF r.resume THEN ResumeReq(s, ok.scan) ELSE s
    /\ other' = (o /\ ~r.resume)

-----------------------------------------------------------------------------
(* Handlers of the application task *)

\* bt_adap_start_discovery and bt_adap_stop_discovery: the first client starts
\* the scan, the last one stops it.
Discover ==
    /\ clients < MaxClients
    /\ clients' = clients + 1
    /\ \E ok \in BOOLEAN : scan' = IF clients = 0 THEN StartReq(scan, ok) ELSE scan
    /\ UNCHANGED <<other, rl>>

Leave ==
    /\ clients > 0
    /\ clients' = clients - 1
    /\ \E ok \in BOOLEAN : scan' = IF clients = 1 THEN StopReq(scan, ok) ELSE scan
    /\ UNCHANGED <<other, rl>>

\* A message of the stack.
News == [scan EXCEPT !.gap = Head(scan.msgs), !.msgs = Tail(@)]
Ended == scan.state = "suspend" /\ Head(scan.msgs) = "idle"

ScanNews ==
    /\ scan.msgs # <<>> /\ ~Ended
    /\ \E ok \in BOOLEAN : scan' = StateChange(News, ok)
    /\ UNCHANGED <<clients, other, rl>>

\* handle_scan_stop_in_suspend.  It is called inside scan_sm_execute, which then
\* goes to the next state of its own table, whatever a resume has done.
ScanEnded ==
    /\ scan.msgs # <<>> /\ Ended
    /\ LET p == [rl EXCEPT !.waits = @ \ {"scan"}]
       IN  \E ok \in Oks, d \in Firsts(p) :
              LET r == Check(p, d, ok)
                  s == IF r.resume THEN ResumeReq(News, ok.scan) ELSE News
              IN  /\ rl' = r.rl
                  /\ scan' = [s EXCEPT !.state = "suspend"]
                  /\ other' = (other /\ ~r.resume)
    /\ UNCHANGED clients

\* handle_adv_stop_in_suspend and handle_pa_sync_stop_in_suspend
OtherEnded ==
    /\ other /\ "other" \in rl.waits
    /\ LET p == [rl EXCEPT !.waits = @ \ {"other"}]
       IN  \E ok \in Oks, d \in Firsts(p) : Becomes(Check(p, d, ok), scan, TRUE, ok)
    /\ UNCHANGED clients

\* The bond list changed to p, which is in the controller only after a
\* modification; one that is under way will see to it, and one whose waits were
\* left open starts by waiting for them.
Change(p) ==
    IF "modify" \in rl.act THEN rl' = p /\ UNCHANGED <<scan, other>>
    ELSE IF rl.waits # {}
         THEN /\ rl' = [p EXCEPT !.act = @ \cup {"modify", "suspend"}]
              /\ UNCHANGED <<scan, other>>
    ELSE \E ok \in Oks, d \in Firsts(p), ended \in {TRUE, other} :
            LET s == SuspendReq(scan, ok.scan)
            IN  Becomes(Modify(p, s, d, ok, ended), s, TRUE, ok)

\* LE_BOND_ADD: ble_resolving_list_load_dev
BondAdd(d) ==
    /\ rl.avail > 0
    /\ Change(IF d \in rl.listed THEN rl
              ELSE [rl EXCEPT !.listed = @ \cup {d}, !.avail = @ - 1])
    /\ UNCHANGED clients

\* LE_BOND_DELETE: ble_resolving_list_remove_dev.  An entry that is not in the
\* controller is freed, even while the command that adds it is under way.
BondFreed(d) ==
    /\ d \in rl.listed \ rl.inCtl
    /\ rl' = [rl EXCEPT !.listed = @ \ {d}, !.avail = @ + 1,
                        !.op = IF @ = d THEN FREED ELSE @]
    /\ UNCHANGED <<clients, scan, other>>

BondRemoved(d) ==
    /\ d \in rl.inCtl
    /\ Change([rl EXCEPT !.removal = @ \cup {d}])
    /\ UNCHANGED clients

-----------------------------------------------------------------------------
(* Answers of the controller: ble_privacy_callback *)

\* GAP_MSG_LE_PRIVACY_RESOLUTION_STATUS_INFO; a failure is taken for "off", and
\* nothing is done about it.
Resolved_Forget(p, d, ok) == IF "modify" \in p.act THEN Stay(p) ELSE Toggle(p, ok)
Resolved_Toggled(p, d, ok) ==
    IF "modify" \in p.act THEN Execute(p, d, ok) ELSE Stay([p EXCEPT !.act = {}])
Resolved(p, d, ok) == IF "modify" \in p.act THEN Execute(p, d, ok) ELSE Toggle(p, ok)

ResolutionDone ==
    /\ rl.state \in {"disabling", "enabling"}
    /\ LET p == [rl EXCEPT !.state = IF @ = "enabling" THEN "enable" ELSE "disable"]
       IN  \E ok \in Oks, d \in Firsts(p) : Becomes(Resolved(p, d, ok), scan, other, ok)
    /\ UNCHANGED clients

ResolutionFailed ==
    /\ rl.state \in {"disabling", "enabling"}
    /\ rl' = [rl EXCEPT !.state = "disable", !.gaveUp = TRUE]
    /\ UNCHANGED <<clients, scan, other>>

\* GAP_MSG_LE_PRIVACY_MODIFY_RESOLV_LIST
Modified_Unmarked(d) ==
    [rl EXCEPT !.listed = @ \ (rl.removal \cap {d}), !.inCtl = (@ \cup {d}) \ rl.removal,
               !.attempt = 0, !.op = NONE]
Modified(d) ==
    IF d \in rl.removal
    THEN [rl EXCEPT !.listed = @ \ {d}, !.inCtl = @ \ {d}, !.removal = @ \ {d},
                    !.attempt = 0, !.op = NONE]
    ELSE [rl EXCEPT !.inCtl = @ \cup {d}, !.attempt = 0, !.op = NONE]

GoOn(p) == \E ok \in Oks, d \in Firsts(p) : Becomes(Execute(p, d, ok), scan, other, ok)

ListModified ==
    /\ rl.op \in Devs
    /\ GoOn(Modified(rl.op))
    /\ UNCHANGED clients

ModifyFailed ==
    /\ rl.op # NONE
    /\ GoOn([rl EXCEPT !.attempt = @ + 1, !.op = NONE])
    /\ UNCHANGED clients

\* The entry that was freed is written to.
ModifiedFreed ==
    /\ rl.op = FREED
    /\ rl' = [rl EXCEPT !.op = FAULT]
    /\ UNCHANGED <<clients, scan, other>>

-----------------------------------------------------------------------------
(* The stack; a scan may fail to start *)

StackMoves(from, to) ==
    /\ scan.stack = from /\ Len(scan.msgs) < MaxMsgs
    /\ scan' = To(scan, to)
    /\ UNCHANGED <<clients, other, rl>>

ScanStarted == StackMoves("start", "scanning")
ScanFailed == StackMoves("start", "idle")
ScanStopped == StackMoves("stop", "idle")

-----------------------------------------------------------------------------
Host ==
    \/ Discover \/ Leave \/ ScanNews \/ ScanEnded \/ OtherEnded
    \/ \E d \in Devs : BondAdd(d) \/ BondFreed(d) \/ BondRemoved(d)
    \/ ResolutionDone \/ ResolutionFailed
    \/ ListModified \/ ModifyFailed \/ ModifiedFreed

Next ==
    /\ rl.op # FAULT
    /\ Host \/ ScanStarted \/ ScanFailed \/ ScanStopped

Spec == Init /\ [][Next]_vars

\* The task handles the messages it is sent, and the stack carries out the
\* commands it has taken; nothing is assumed of clients, bonds or the controller.
Fairness ==
    /\ WF_vars(rl.op # FAULT /\ (ScanNews \/ ScanEnded))
    /\ WF_vars(rl.op # FAULT /\ (ScanStarted \/ ScanFailed))
    /\ WF_vars(rl.op # FAULT /\ ScanStopped)
FairSpec == Spec /\ Fairness

-----------------------------------------------------------------------------
(* Properties *)

\* Once the stack has nothing more to report, it scans exactly when the manager
\* is enabled: neither a scan that nobody stops, nor one that never comes back,
\* in whatever order requests, suspensions and late news came
\* (hdl_scan_state_change stops a scan that has become unwanted).  The manager and
\* the stack part only by a command that was refused although it could have been
\* carried out, and only until the next one.
ScanSettles ==
    scan.msgs = <<>> /\ scan.stack \in {"idle", "scanning"} /\ ~scan.refused
        => (scan.stack = "scanning" <=> scan.state = "enable")

\* A modification that has been asked for never just lies there: an activity is
\* still to end, a command is with the controller, or turning resolution off
\* has failed, which nobody retries (ble_privacy_callback, cause # success).
ModifyGoesOn ==
    "modify" \in rl.act =>
        \/ rl.waits # {} \/ rl.op # NONE
        \/ rl.state \in {"disabling", "enabling"}
        \/ rl.gaveUp

\* While the end of the scan is waited for, the stack is starting or stopping, its
\* news are under way, or it refused the stop: the wait of le_scan_suspend_req is
\* not for something that is over, nor for a scan that nobody has stopped.
WaitEnds ==
    "scan" \in rl.waits => scan.stack \in {"start", "stop"} \/ scan.msgs # <<>> \/ scan.refused

\* While the controller changes its list, address resolution is off and no
\* command that turns it on is under way (execute_rl_dev_operation).
ResolutionOff == rl.op # NONE => rl.state = "disable"

\* Nothing is left to do, and nothing failed.
Finished == rl.act = {} /\ rl.state \in {"disable", "enable"} /\ ~rl.gaveUp

\* When the resolving list is done, advertising and synchronisation have been
\* resumed, on whichever of the paths the modification ended.
OthersResume == Finished => ~other

\* The same of the scan, which hdl_resume_req enables "right now".  It fails:
\* ScanEnded overwrites what the resume has set.
ScanResumes == Finished /\ ~scan.refused => scan.state # "suspend"

\* Without clients the scan stops, unless somebody asks for it again, or the stack
\* refuses the command (or the program has written to an entry it had freed).
ScanStops ==
    clients = 0 ~> \/ scan.stack = "idle" \/ scan.refused
                   \/ clients > 0 \/ rl.op = FAULT
=============================================================================
