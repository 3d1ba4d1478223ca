---------------------------- MODULE WorkspaceAccess ----------------------------
(***************************************************************************)
(* Who a request acts for, and in which workspace: the middleware asks the *)
(* session service, the page asks it again, the personal workspace is      *)
(* provisioned by a function of the database on every request, and the     *)
(* workspace is chosen among the memberships.  First requests come several *)
(* at a time; the function is one transaction, each statement of which     *)
(* sees what has been committed by then.                                   *)
(***************************************************************************)
EXTENDS FiniteSets, Integers

CONSTANTS
  Visit,         \* requests for a page of the console, or an action of it
  Account,       \* users
  Team,          \* workspaces of several members, there from the start
  TeamMembers,   \* set of <<team, user>>
  MaxAborts      \* bound: calls that throw

ASSUME AccessAssumption ==
  /\ TeamMembers \subseteq Team \X Account /\ Visit \cap Team = {} /\ MaxAborts \in Nat

VARIABLES
  session,       \* users who are signed in
  homes,         \* personal rows of workspaces, each named by its creator
  members,       \* rows of workspace_members
  visits,        \* what every request knows
  aborts

accessVars == <<session, homes, members, visits, aborts>>

NoWorkspace == "none"
VisitPc == {"new", "page", "selecting", "inserting", "resolving", "joining",
            "committing", "listing", "answered", "login", "refused", "broken"}

AccessInit ==
  /\ session \in SUBSET Account
  /\ homes = {}
  /\ members = TeamMembers
  /\ visits = [v \in Visit |-> [pc |-> "new"]]
  /\ aborts = 0

HomeRow(id, user) == [id |-> id, owner |-> user]

To(v, pc) == visits' = [visits EXCEPT ![v].pc = pc]
Ends(v, pc) == visits' = [visits EXCEPT ![v] = [pc |-> pc]]

(* Sign-in, by password or on the way back from a provider; sign-out, or a *)
(* session that runs out.  The session lives in a service of its own.      *)
SignIn(user) ==
  /\ session' = session \cup {user}
  /\ UNCHANGED <<homes, members, visits, aborts>>

SessionEnds(user) ==
  /\ session' = session \ {user}
  /\ UNCHANGED <<homes, members, visits, aborts>>

(* The middleware: no session, no console.                                 *)
EnterConsole(v, user, wanted) ==
  /\ visits[v].pc = "new"
  /\ IF user \in session
     THEN visits' = [visits EXCEPT ![v] =
            [pc |-> "page", user |-> user, wanted |-> wanted, workspace |-> NoWorkspace]]
     ELSE Ends(v, "login")
  /\ UNCHANGED <<session, homes, members, aborts>>

(* getCurrentUser, a second look at the session: a caller without one gets *)
(* no context.                                                             *)
CurrentUser(v) ==
  /\ visits[v].pc = "page"
  /\ IF visits[v].user \in session THEN To(v, "selecting") ELSE Ends(v, "refused")
  /\ UNCHANGED <<session, homes, members, aborts>>

-----------------------------------------------------------------------------
(* app_provision_personal_workspace.  A row that a transaction has written *)
(* is seen by the others when it commits.                                  *)

InTransaction(v) == visits[v].pc \in {"joining", "committing"}
HomesOf(user) == {h \in homes : h.owner = user}
WrittenBy(v) == InTransaction(v) /\ visits[v].workspace = v

Found(v, pc) ==
  \E h \in HomesOf(visits[v].user) :
    visits' = [visits EXCEPT ![v].pc = pc, ![v].workspace = h.id]

SelectHome(v) ==
  /\ visits[v].pc = "selecting"
  /\ IF HomesOf(visits[v].user) = {} THEN To(v, "inserting") ELSE Found(v, "joining")
  /\ UNCHANGED <<session, homes, members, aborts>>

(* uq_workspace_personal_owner: an insert waits for a transaction that has *)
(* written the same key, and does nothing if the key is there by then.     *)
KeyLocked(v) ==
  \E u \in Visit \ {v} : WrittenBy(u) /\ visits[u].user = visits[v].user
KeyUnchecked(v) == FALSE
KeyTaken(v) == HomesOf(visits[v].user) # {}

InsertHome(v) ==
  /\ visits[v].pc = "inserting" /\ ~KeyLocked(v)
  /\ IF KeyTaken(v) THEN To(v, "resolving")
     ELSE visits' = [visits EXCEPT ![v].pc = "joining", ![v].workspace = v]
  /\ UNCHANGED <<session, homes, members, aborts>>

SelectWinner(v) ==
  /\ visits[v].pc = "resolving"
  /\ Found(v, "joining")
  /\ UNCHANGED <<session, homes, members, aborts>>

(* The owner's membership, whoever created the row; it waits for another   *)
(* transaction that is writing it.                                         *)
InsertMember(v) ==
  /\ visits[v].pc = "joining"
  /\ ~\E u \in Visit \ {v} : /\ visits[u].pc = "committing"
                             /\ visits[u].workspace = visits[v].workspace
  /\ To(v, "committing")
  /\ UNCHANGED <<session, homes, members, aborts>>

Commit(v) ==
  LET visit == visits[v] IN
  /\ visit.pc = "committing"
  /\ homes' = IF WrittenBy(v) THEN homes \cup {HomeRow(v, visit.user)} ELSE homes
  /\ members' = members \cup {<<visit.workspace, visit.user>>}
  /\ To(v, "listing")
  /\ UNCHANGED <<session, aborts>>

(* A statement throws, or the connection breaks: nothing of it stays.      *)
Breaks(v) ==
  /\ visits[v].pc \in VisitPc \ {"new", "answered", "login", "refused", "broken"}
  /\ aborts < MaxAborts /\ aborts' = aborts + 1
  /\ Ends(v, "broken")
  /\ UNCHANGED <<session, homes, members>>

-----------------------------------------------------------------------------
(* The memberships of the user, the personal workspace first; a list that  *)
(* lags behind the provisioning gets it put in front.                      *)
Memberships(user) == {m[1] : m \in {m \in members : m[2] = user}}
Listed(v) == Memberships(visits[v].user) \cup {visits[v].workspace}

(* resolveWorkspace.                                                       *)
ResolveWorkspace(v) ==
  IF visits[v].wanted # NoWorkspace
  THEN Listed(v) \cap {visits[v].wanted}
  ELSE {visits[v].workspace}

ListForUser(v) ==
  /\ visits[v].pc = "listing"
  /\ IF ResolveWorkspace(v) = {} THEN Ends(v, "refused")
     ELSE \E w \in ResolveWorkspace(v) :
            visits' = [visits EXCEPT ![v].pc = "answered", ![v].workspace = w]
  /\ UNCHANGED <<session, homes, members, aborts>>

AccessNext ==
  \/ \E user \in Account : SignIn(user) \/ SessionEnds(user)
  \/ \E v \in Visit :
       \/ \E user \in Account, wanted \in Team \cup Visit \cup {NoWorkspace} :
            EnterConsole(v, user, wanted)
       \/ CurrentUser(v) \/ SelectHome(v) \/ InsertHome(v) \/ SelectWinner(v)
       \/ InsertMember(v) \/ Commit(v) \/ Breaks(v) \/ ListForUser(v)

AccessSpec == AccessInit /\ [][AccessNext]_accessVars
-----------------------------------------------------------------------------
AccessTypeOK ==
  /\ session \subseteq Account
  /\ homes \subseteq {HomeRow(v, user) : v \in Visit, user \in Account}
  /\ members \subseteq (Team \cup Visit) \X Account
  /\ \A v \in Visit : visits[v].pc \in VisitPc

(* First requests that come together end up in one personal workspace: a   *)
(* user never owns two, is a member of the one, and a request acts only in *)
(* a workspace its user belongs to, in the personal one unless it asked    *)
(* for another.                                                            *)
ActsWhereMember ==
  /\ \A h, g \in homes : h.owner = g.owner => h = g
  /\ \A h \in homes : <<h.id, h.owner>> \in members
  /\ \A v \in Visit : visits[v].pc = "answered" =>
       /\ <<visits[v].workspace, visits[v].user>> \in members
       /\ visits[v].wanted = NoWorkspace =>
            HomeRow(visits[v].workspace, visits[v].user) \in homes
=============================================================================
