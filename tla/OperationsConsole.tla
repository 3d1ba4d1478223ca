-------------------------- MODULE OperationsConsole --------------------------
(***************************************************************************)
(* An operation of a workspace and the browser tabs that work on it.  A    *)
(* tab shows the row as it was when the page was rendered, offers the      *)
(* moves and the form that row allowed, and sends one request at a time to *)
(* OperationsService; the service reads the row again, decides on what it  *)
(* has read, and writes the whole row in a later call.                     *)
(***************************************************************************)
EXTENDS WorkspaceRoles

CONSTANTS
  Tab, UserOf,       \* browser tabs, and who is signed in there
  OpsRoleOf,         \* that user's role in the workspace
  NoText,            \* an empty form
  InitialOperations, \* the rows it may start from, NoOperation among them
  MaxSent,           \* bound: requests the tabs send
  MaxThrows          \* bound: calls to the database that throw

ASSUME TabsAssumption == OpsRoleOf \in [Tab -> WorkspaceRole]

VARIABLES
  operation,     \* the row of operations
  trail,         \* its operation_activity, append-only
  tabs,          \* page, row shown, error and request of every tab
  sent, throws   \* so far

opsVars == <<operation, trail, tabs, sent, throws>>

OperationTransitions ==
  [draft |-> {"planned"}, planned |-> {"in_progress"},
   in_progress |-> {"blocked", "completed"}, blocked |-> {"in_progress"},
   completed |-> {"archived"}, archived |-> {}]

OperationStatus == DOMAIN OperationTransitions
OpsInitialStatus == "draft"
OpsIsTerminal(status) == OperationTransitions[status] = {}

(* Title, description and priority are one text, named for the tab whose   *)
(* user wrote it.                                                          *)
OperationRow == [status : OperationStatus, text : Tab \cup {NoText},
                 createdBy : {UserOf[t] : t \in Tab}]
NoOperation == [status |-> "none"]

ASSUME OperationsAssumption ==
  /\ InitialOperations \subseteq OperationRow \cup {NoOperation}
  /\ MaxThrows \in Nat /\ MaxSent \in Nat

CanCreateOperation(t) == RoleAtLeast(OpsRoleOf[t], "member")
CanViewOperations(t)  == RoleAtLeast(OpsRoleOf[t], "member")
CanManageOperation(t, row) ==
  row.createdBy = UserOf[t] \/ RoleAtLeast(OpsRoleOf[t], "admin")

NoCall == [pc |-> "none"]
CallPc == {"none", "loading", "saving", "recording", "reporting"}
Page == {"list", "new", "detail", "edit", "error"}

OpsInit ==
  /\ operation \in InitialOperations
  /\ trail = IF operation = NoOperation THEN {}
             ELSE {[type |-> "status_changed", from |-> "none", to |-> operation.status]}
  /\ tabs = [t \in Tab |-> [page |-> "list", shown |-> NoOperation,
                            error |-> FALSE, call |-> NoCall]]
  /\ sent = 0 /\ throws = 0

Show(t, page) ==
  tabs' = [tabs EXCEPT ![t] = [page |-> page, shown |-> operation,
                               error |-> FALSE, call |-> NoCall]]

Pending(t) == tabs[t].call # NoCall
NextMoves(row) == OperationTransitions[row.status]

(* The list: the operations of the workspace, if there are any.            *)
OpenList(t) ==
  /\ ~Pending(t)
  /\ Show(t, "list")
  /\ UNCHANGED <<operation, trail, sent, throws>>

(* The detail page: reads the row, and derives from it what may be done.   *)
OpenDetail(t) ==
  /\ ~Pending(t) /\ operation # NoOperation
  /\ Show(t, "detail")
  /\ UNCHANGED <<operation, trail, sent, throws>>

OpenNew(t) ==
  /\ ~Pending(t) /\ operation = NoOperation
  /\ Show(t, "new")
  /\ UNCHANGED <<operation, trail, sent, throws>>

(* The edit page: an archived operation is sent back to its detail view,   *)
(* and who may not manage it gets no form.                                 *)
OpenEdit(t) ==
  /\ ~Pending(t) /\ tabs[t].page = "detail"
  /\ CanManageOperation(t, tabs[t].shown) /\ ~OpsIsTerminal(tabs[t].shown.status)
  /\ Show(t, IF OpsIsTerminal(operation.status) THEN "detail" ELSE "edit")
  /\ UNCHANGED <<operation, trail, sent, throws>>

Send(t, op, to, text) ==
  /\ sent < MaxSent
  /\ sent' = sent + 1
  /\ tabs' = [tabs EXCEPT ![t].error = FALSE,
               ![t].call = [pc |-> "loading", op |-> op, to |-> to, text |-> text]]

(* One button per move the shown row allowed; all disabled while pending.  *)
Move(t, to) ==
  /\ tabs[t].page = "detail" /\ ~Pending(t)
  /\ CanManageOperation(t, tabs[t].shown) /\ to \in NextMoves(tabs[t].shown)
  /\ Send(t, "status_changed", to, NoText)
  /\ UNCHANGED <<operation, trail, throws>>

(* The form sends all its fields: those of the row it was filled from, or  *)
(* what the user typed.                                                    *)
SubmitForm(t) ==
  /\ tabs[t].page \in {"new", "edit"} /\ ~Pending(t)
  /\ IF tabs[t].page = "new" THEN Send(t, "created", OpsInitialStatus, t)
     ELSE \E text \in {t, tabs[t].shown.text} : Send(t, "updated", "none", text)
  /\ UNCHANGED <<operation, trail, throws>>

(* An OperationError comes back as a message on the page it was sent from. *)
Reply(t) == tabs' = [tabs EXCEPT ![t].call = NoCall, ![t].error = TRUE]

(* Success: a transition re-renders the detail page, a form redirects to   *)
(* it; both show the row as it is by then.                                 *)
Succeed(t) == Show(t, "detail")

Continue(t, row) ==
  tabs' = [tabs EXCEPT ![t].call =
    [pc |-> "saving", op |-> @.op, row |-> row,
     from |-> IF @.op = "status_changed" THEN operation.status ELSE "none",
     to   |-> IF @.op = "status_changed" THEN row.status ELSE "none"]]

Loading(t, op) == tabs[t].call.pc = "loading" /\ tabs[t].call.op = op

OpsCreate(t) ==
  /\ Loading(t, "created")
  /\ \/ Reply(t)     \* not signed in, or the input does not parse
     \/ /\ CanCreateOperation(t) /\ operation = NoOperation
        /\ \A u \in Tab : tabs[u].call.pc = "saving" => tabs[u].call.op # "created"
        /\ Continue(t, [status |-> OpsInitialStatus, text |-> tabs[t].call.text,
                        createdBy |-> UserOf[t]])
  /\ UNCHANGED <<operation, trail, sent, throws>>

OpsUpdate(t) ==
  LET existing == operation
      text     == tabs[t].call.text
  IN
  /\ Loading(t, "updated")
  /\ \/ Reply(t)     \* also: archived, so read-only
     \/ /\ CanViewOperations(t) /\ existing # NoOperation
        /\ CanManageOperation(t, existing) /\ ~OpsIsTerminal(existing.status)
        /\ IF text = existing.text THEN Succeed(t)
           ELSE Continue(t, [existing EXCEPT !.text = text])
  /\ UNCHANGED <<operation, trail, sent, throws>>

OpsTransition(t) ==
  LET existing == operation
      to       == tabs[t].call.to
  IN
  /\ Loading(t, "status_changed")
  /\ \/ Reply(t)     \* also: an invalid transition
     \/ /\ CanViewOperations(t) /\ existing # NoOperation
        /\ CanManageOperation(t, existing)
        /\ IF to = existing.status THEN Succeed(t)
           ELSE /\ to \in OperationTransitions[existing.status]
                /\ Continue(t, [existing EXCEPT !.status = to])
  /\ UNCHANGED <<operation, trail, sent, throws>>

OpsSaveUnrecorded(t) ==
  /\ tabs[t].call.pc = "saving"
  /\ operation' = tabs[t].call.row
  /\ tabs' = [tabs EXCEPT ![t].call.pc = "reporting"]
  /\ UNCHANGED <<trail, sent, throws>>

(* The insert, or the update of every column from the row in memory.       *)
OpsSave(t) ==
  /\ tabs[t].call.pc = "saving"
  /\ operation' = tabs[t].call.row
  /\ tabs' = [tabs EXCEPT ![t].call.pc = "recording"]
  /\ UNCHANGED <<trail, sent, throws>>

OpsRecord(t) ==
  LET call == tabs[t].call IN
  /\ call.pc = "recording"
  /\ trail' = trail \cup {[type |-> call.op, from |-> call.from, to |-> call.to]}
  /\ tabs' = [tabs EXCEPT ![t].call.pc = "reporting"]
  /\ UNCHANGED <<operation, sent, throws>>

(* The signal is best-effort; then the action revalidates and answers.     *)
OpsReport(t) ==
  /\ tabs[t].call.pc = "reporting"
  /\ Succeed(t)
  /\ UNCHANGED <<operation, trail, sent, throws>>

(* An unexpected error: a transition brings up the error page, a form      *)
(* becomes usable again without a word.                                    *)
OpsThrow(t) ==
  /\ tabs[t].call.pc \in {"loading", "saving", "recording"}
  /\ throws < MaxThrows
  /\ throws' = throws + 1
  /\ tabs' = [tabs EXCEPT ![t].call = NoCall,
                          ![t].page = IF @ = "detail" THEN "error" ELSE @]
  /\ UNCHANGED <<operation, trail, sent>>

Serve(t) ==
  \/ OpsCreate(t) \/ OpsUpdate(t) \/ OpsTransition(t)
  \/ OpsSave(t) \/ OpsRecord(t) \/ OpsReport(t)

OpsNext ==
  \E t \in Tab :
    \/ OpenList(t) \/ OpenDetail(t) \/ OpenNew(t) \/ OpenEdit(t) \/ SubmitForm(t)
    \/ \E to \in OperationStatus : Move(t, to)
    \/ Serve(t) \/ OpsThrow(t)

OpsSpec == OpsInit /\ [][OpsNext]_opsVars
-----------------------------------------------------------------------------
OpsTypeOK ==
  /\ operation \in OperationRow \cup {NoOperation}
  /\ \A t \in Tab : tabs[t].page \in Page /\ tabs[t].call.pc \in CallPc
  /\ sent \in 0 .. MaxSent /\ throws \in 0 .. MaxThrows

(* The trail accounts for the row: while no call failed, a status a row    *)
(* has reached is the target of a move in the trail, or of a request that  *)
(* saved it and is about to record it.                                     *)
TrailExplainsStatus ==
  throws = 0 /\ operation # NoOperation =>
    \/ operation.status = OpsInitialStatus
    \/ \E entry \in trail : entry.to = operation.status
    \/ \E t \in Tab : /\ tabs[t].call.pc = "recording"
                      /\ tabs[t].call.row.status = operation.status
=============================================================================
