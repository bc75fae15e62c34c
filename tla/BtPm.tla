-------------------------------- MODULE BtPm --------------------------------
(***************************************************************************)
(* Sniff mode of one Bluetooth link: the state machine of bt_pm.c as       *)
(* functions of the link's record.  The host sends a command to the        *)
(* controller (cmds) and learns the result later by an event; a request    *)
(* that comes meanwhile is remembered in action.                           *)
(*                                                                         *)
(* A parameter ok says whether the stack takes the command that is sent,   *)
(* if one is sent.  An operator X_Y before X documents a slip in X that    *)
(* one of the properties would reveal.                                     *)
(***************************************************************************)
EXTENDS Naturals, Sequences

Pending == {"sniffPending", "activePending"}
PmStates == {"active", "sniff"} \cup Pending
PmActions == {"idle", "enter", "exit"}
Commands == {"enter", "exit"}
PmEvents == {"sniff", "active", "enterFail", "exitFail"}

\* The part of T_BT_LINK that bt_pm.c works on.  gaveUp is no field of the
\* code: an attempt to leave the present sniff mode failed.
Link == [state : PmStates, action : PmActions, timer : BOOLEAN,
         enable : BOOLEAN, cmds : Seq(Commands), gaveUp : BOOLEAN]

\* After bt_sniff_mode_config and BT_PM_EVENT_LINK_CONNECTED.
NewLink == [state |-> "active", action |-> "idle", timer |-> TRUE,
            enable |-> TRUE, cmds |-> <<>>, gaveUp |-> FALSE]

-----------------------------------------------------------------------------
(* bt_sniff_mode_enter and bt_sniff_mode_exit.  The pending states only    *)
(* remember the request, or forget the opposite one.                       *)

EnterSniff(l, ok) ==
    IF l.state = "active" /\ ok
    THEN [l EXCEPT !.state = "sniffPending", !.action = "idle",
                   !.cmds = Append(@, "enter")]
    ELSE [l EXCEPT !.action = IF l.state = "activePending" THEN "enter" ELSE "idle"]

ExitSniff(l, ok) ==
    IF l.state = "sniff" /\ ok
    THEN [l EXCEPT !.state = "activePending", !.action = "idle",
                   !.cmds = Append(@, "exit"), !.gaveUp = FALSE]
    ELSE [l EXCEPT !.action = IF l.state = "sniffPending" THEN "exit" ELSE "idle",
                   !.gaveUp = @ \/ l.state = "sniff"]

-----------------------------------------------------------------------------
(* bt_pm_sm.  A handler is split where it calls the callbacks of the       *)
(* profiles: XBegin before them, XEnd after them.                          *)

\* SNIFF_ENTER_REQ; a callback may refuse (veto).  bt_sniff_mode_enter returns
\* true only if the link is in sniff mode already; otherwise the idle timer is
\* started again.
Restart_Accepted(l, veto) == ~veto /\ l.state # "sniff"
Restart(l, veto) == veto \/ l.state # "sniff"

EnterReq(l, veto, ok) ==
    [(IF veto THEN l ELSE EnterSniff(l, ok)) EXCEPT !.timer = Restart(l, veto)]

EnterSuccessBegin(l) == [l EXCEPT !.timer = FALSE, !.state = "sniff"]

\* An exit was asked for meanwhile, or sniff mode disabled.
Leave_Asked(l) == l.action = "exit"
Leave(l) == l.action = "exit" \/ ~l.enable

EnterSuccessEnd(l, ok) ==
    LET e == [l EXCEPT !.action = "idle"] IN IF Leave(l) THEN ExitSniff(e, ok) ELSE e

Woke(l) == [l EXCEPT !.timer = TRUE, !.state = "active", !.gaveUp = FALSE]

\* SNIFF_ENTER_FAIL counts in SNIFF_PENDING only, SNIFF_EXIT_SUCCESS always.
EnterFailBegin(l) == Woke(l)
ExitSuccessBegin(l) == Woke(l)

WokeEnd_Keep(l, ok) ==
    IF l.action = "enter" THEN EnterSniff([l EXCEPT !.action = "idle"], ok) ELSE l
WokeEnd(l, ok) ==
    LET e == [l EXCEPT !.action = "idle"]
    IN  IF l.action = "enter" THEN EnterSniff(e, ok) ELSE e

\* SNIFF_EXIT_FAIL, which counts in ACTIVE_PENDING only.
ExitFailBegin_Stay(l) == [l EXCEPT !.timer = FALSE, !.gaveUp = TRUE]
ExitFailBegin(l) == [l EXCEPT !.timer = FALSE, !.state = "sniff", !.gaveUp = TRUE]

ExitFailEnd(l, ok) ==
    LET e == [l EXCEPT !.action = "idle"]
    IN  IF l.action = "exit" THEN ExitSniff(e, ok) ELSE e

\* bt_sniff_mode_disable; bt_sniff_mode_enable asks for an exit when it
\* changes the parameters.
Disable(l, ok) ==
    IF ~l.enable THEN l
    ELSE LET d == [l EXCEPT !.enable = FALSE]
         IN  IF l.state = "active" THEN d ELSE ExitSniff(d, ok)

Enable(l, change, ok) ==
    LET e == [l EXCEPT !.enable = TRUE]
    IN  IF change THEN ExitSniff(e, ok) ELSE e
=============================================================================
