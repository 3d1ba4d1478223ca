---------------------------- MODULE CommandPalette ----------------------------
(***************************************************************************)
(* The command palette of one browser tab.  It is mounted above the pages, *)
(* so its state outlives a switch of the workspace and a sign-out: the     *)
(* selected workspace, and a cache of feeds that is filled by answers      *)
(* which arrive when they like.  What is picked is told to the server      *)
(* without waiting.                                                        *)
(*                                                                         *)
(* The three feeds (operations, agents, signals) are alike; one is kept.   *)
(* Its rows are named for the workspace they are of.                       *)
(***************************************************************************)
EXTENDS Naturals, FiniteSets

CONSTANTS
  Operator,
  HomeOf,        \* operator -> personal workspace, the first of the list
  Shared,        \* workspaces of several members
  SharedBy,      \* set of <<workspace, operator>>
  MaxFetches,    \* bound: requests for a feed under way at one time
  MaxPicks       \* bound: commands and switches that are recorded

ASSUME PaletteAssumption ==
  /\ SharedBy \subseteq Shared \X Operator
  /\ \A o, p \in Operator : HomeOf[o] = HomeOf[p] => o = p
  /\ \A o \in Operator : HomeOf[o] \notin Shared
  /\ MaxPicks \in Nat

VARIABLES
  signedIn,      \* the operator whose cookies the tab sends, or Visitor
  shell,         \* the operator the console's shell was rendered for
  selected,      \* activeWorkspaceId, or NoSelection
  open,          \* is the dialog shown?
  feeds,         \* the query cache: [key, rows]
  loading,       \* requests for a feed under way
  telemetry,     \* recordings under way
  recorded,      \* signals published for them
  picks          \* so far

paletteVars ==
  <<signedIn, shell, selected, open, feeds, loading, telemetry, recorded, picks>>

Visitor == "visitor"
NoSelection == "null"
Workspace == {HomeOf[o] : o \in Operator} \cup Shared

WorkspacesOf(user) ==
  IF user = Visitor THEN {}
  ELSE {HomeOf[user]} \cup {w \in Shared : <<w, user>> \in SharedBy}

(* The server honors a workspace the caller belongs to, and takes the      *)
(* first one when none is named.                                           *)
Honored(user, wanted) ==
  IF wanted = NoSelection
  THEN IF user = Visitor THEN {} ELSE {HomeOf[user]}
  ELSE WorkspacesOf(user) \cap {wanted}

PaletteInit ==
  /\ signedIn \in Operator \cup {Visitor}
  /\ shell = Visitor /\ selected = NoSelection /\ open = FALSE
  /\ feeds = {} /\ loading = {} /\ telemetry = {} /\ recorded = {}
  /\ picks = 0
-----------------------------------------------------------------------------
(* The shell.                                                              *)

RenderShell ==
  /\ signedIn # Visitor
  /\ shell' = signedIn
  /\ UNCHANGED <<signedIn, selected, open, feeds, loading, telemetry, recorded, picks>>

EffectiveId == IF selected = NoSelection THEN HomeOf[shell] ELSE selected

(* The workspace the shell shows as the current one.                       *)
Current == IF EffectiveId \in WorkspacesOf(shell) THEN EffectiveId ELSE HomeOf[shell]

(* The effect of the provider.  A selection the operator cannot access is  *)
(* pointed at the effective id, which is that selection.                   *)
SeedSelection ==
  /\ shell # Visitor /\ selected \notin WorkspacesOf(shell)
  /\ selected' = EffectiveId
  /\ UNCHANGED <<signedIn, shell, open, feeds, loading, telemetry, recorded, picks>>

Recording(type, wanted, item) ==
  /\ picks < MaxPicks
  /\ picks' = picks + 1
  /\ telemetry' = telemetry \cup
       {[type |-> type, wanted |-> wanted, user |-> signedIn, item |-> item]}

(* The switcher; the workspace that is current already is not recorded.    *)
SelectWorkspace(w) ==
  /\ shell # Visitor /\ ~open /\ w \in WorkspacesOf(shell)
  /\ selected' = w
  /\ IF w = Current THEN UNCHANGED <<telemetry, picks>>
     ELSE Recording("workspace.changed", w, NoSelection)
  /\ UNCHANGED <<signedIn, shell, open, feeds, loading, recorded>>

(* Sign-out, and a sign-in by password, move within the application; a     *)
(* sign-in by a provider, or a reload, starts the tab anew.  The cookies   *)
(* are those of the browser: another tab signs in or out, and a session    *)
(* ends, at any time and without this tab's knowing.                       *)
LeaveConsole ==
  /\ shell # Visitor /\ ~open
  /\ signedIn' = Visitor /\ shell' = Visitor
  /\ UNCHANGED <<selected, open, feeds, loading, telemetry, recorded, picks>>

SessionBecomes(user) ==
  /\ signedIn' = user
  /\ UNCHANGED <<shell, selected, open, feeds, loading, telemetry, recorded, picks>>

ReloadTab ==
  /\ shell' = Visitor /\ selected' = NoSelection /\ open' = FALSE
  /\ feeds' = {} /\ loading' = {}
  /\ UNCHANGED <<signedIn, telemetry, recorded, picks>>
-----------------------------------------------------------------------------
(* The palette.                                                            *)

TogglePalette ==
  /\ open' = ~open
  /\ UNCHANGED <<signedIn, shell, selected, feeds, loading, telemetry, recorded, picks>>

(* The query key embeds the workspace.                                     *)
OneKey(w) == "palette-operations"
FeedKey(w) == w

(* A query is enabled while the palette is open and a workspace is         *)
(* selected; one request per key, again when its rows are old.             *)
FetchFeed ==
  /\ open /\ selected # NoSelection
  /\ \A l \in loading : l.key # FeedKey(selected)
  /\ Cardinality(loading) < MaxFetches
  /\ loading' = loading \cup
       {[key |-> FeedKey(selected), wanted |-> selected, user |-> signedIn]}
  /\ UNCHANGED <<signedIn, shell, selected, open, feeds, telemetry, recorded, picks>>

(* The route answers for the workspace if the caller may have it.          *)
FeedRows(l) == Honored(l.user, l.wanted)

(* An answer that is not ok is kept as no rows.                            *)
FeedArrives(l) ==
  /\ l \in loading
  /\ loading' = loading \ {l}
  /\ \E rows \in {{}, FeedRows(l)} :
       feeds' = {f \in feeds : f.key # l.key} \cup {[key |-> l.key, rows |-> rows]}
  /\ UNCHANGED <<signedIn, shell, selected, open, telemetry, recorded, picks>>

(* No answer, twice: the rows there were remain.                           *)
FeedFails(l) ==
  /\ l \in loading
  /\ loading' = loading \ {l}
  /\ UNCHANGED <<signedIn, shell, selected, open, feeds, telemetry, recorded, picks>>

(* A cache entry nobody has looked at for minutes is dropped.              *)
CollectFeed(f) ==
  /\ f \in feeds /\ ~(open /\ f.key = FeedKey(selected))
  /\ feeds' = feeds \ {f}
  /\ UNCHANGED <<signedIn, shell, selected, open, loading, telemetry, recorded, picks>>

ListedRows ==
  IF ~open \/ selected = NoSelection THEN {}
  ELSE UNION {f.rows : f \in {f \in feeds : f.key = FeedKey(selected)}}

(* A command, or a row of the feed: recorded, closed, and off to the page. *)
Pick(item) ==
  /\ open /\ item \in ListedRows \cup {NoSelection}
  /\ open' = FALSE
  /\ Recording("command.executed", selected, item)
  /\ UNCHANGED <<signedIn, shell, selected, feeds, loading, recorded>>

(* The action resolves the workspace and publishes; it is never awaited,   *)
(* and what it throws is swallowed.                                        *)
RecordPick(t) ==
  /\ t \in telemetry
  /\ telemetry' = telemetry \ {t}
  /\ recorded' = recorded \cup
       {[type |-> t.type, workspace |-> w, actor |-> t.user, item |-> t.item] :
          w \in Honored(t.user, t.wanted)}
  /\ UNCHANGED <<signedIn, shell, selected, open, feeds, loading, picks>>

LosePick(t) ==
  /\ t \in telemetry
  /\ telemetry' = telemetry \ {t}
  /\ UNCHANGED <<signedIn, shell, selected, open, feeds, loading, recorded, picks>>

PaletteNext ==
  \/ RenderShell \/ SeedSelection \/ LeaveConsole \/ ReloadTab
  \/ \E w \in Workspace : SelectWorkspace(w)
  \/ \E user \in Operator \cup {Visitor} : SessionBecomes(user)
  \/ TogglePalette \/ FetchFeed
  \/ \E l \in loading : FeedArrives(l) \/ FeedFails(l)
  \/ \E f \in feeds : CollectFeed(f)
  \/ \E item \in Workspace \cup {NoSelection} : Pick(item)
  \/ \E t \in telemetry : RecordPick(t) \/ LosePick(t)

PaletteSpec == PaletteInit /\ [][PaletteNext]_paletteVars
-----------------------------------------------------------------------------
PaletteTypeOK ==
  /\ {signedIn, shell} \subseteq Operator \cup {Visitor}
  /\ selected \in Workspace \cup {NoSelection} /\ open \in BOOLEAN
  /\ \A f \in feeds : f.rows \subseteq Workspace
  /\ picks \in 0 .. MaxPicks

(* Whenever answers arrive, and whoever signs in after whom in the same    *)
(* tab: the palette lists rows of the workspace that is selected, a pick   *)
(* is recorded where its row lives, and nothing is recorded in a workspace *)
(* its actor does not belong to.                                           *)
PaletteKeepsScope ==
  /\ ListedRows \subseteq {selected}
  /\ \A s \in recorded :
       /\ s.workspace \in WorkspacesOf(s.actor)
       /\ s.item # NoSelection => s.item = s.workspace
=============================================================================
