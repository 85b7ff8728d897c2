----------------------------- MODULE DesktopTabs -----------------------------
(***************************************************************************)
(* The tabs of the desktop app: the store of tab groups, one group per     *)
(* workspace (stores/tab-store.ts), the memory router each tab owns, the    *)
(* hook that copies a router's location and history into the store         *)
(* (hooks/use-tab-router-sync.ts, use-tab-history.ts), the navigation       *)
(* adapters (platform/navigation.tsx), and what signing in and out, a       *)
(* relaunch and changes of the workspace list do to the store.              *)
(*                                                                         *)
(* Only the visible tab is subscribed: the Activity around a hidden tab     *)
(* suspends its effects, and the tabs of another workspace are unmounted.   *)
(* A page may push after an await, when its tab is no longer visible.       *)
(* The order of the tabs in a group and their titles are left out.          *)
(***************************************************************************)
EXTENDS Integers, Sequences

CONSTANTS
    Slugs,       \* workspaces
    Pages,       \* pages of a workspace
    None,        \* no workspace, no tab
    MaxTabs,     \* bound on the tabs ever made
    MaxHistory,  \* bound on the entries of a tab's router
    MaxUpsets    \* bound on relaunches, logouts, changes of membership, late
                 \* pushes, notifications and overlays

VARIABLES
    signedIn,    \* the auth store has a user
    members,     \* the workspaces the server has for the user
    list,        \* the workspace list in the query cache
    store,       \* the tab store, see Store
    router,      \* the memory router of each tab made
    refs,        \* indexRef and lengthRef of each tab's hook
    upsets,      \* counter of the bound
    visited,     \* ghost: tabs that were visible since the launch
    stray,       \* ghost: tabs a notification put into a group not theirs
    unseen       \* ghost: tabs whose router moved while nobody was subscribed

session == <<signedIn, members, list>>
vars == <<session, store, router, refs, upsets, visited, stray, unseen>>

ASSUME SlugsAssumption == Slugs # {} /\ None \notin Slugs
\* The workbench, and perhaps "issues", a default page of older versions.
ASSUME PagesAssumption == "root" \in Pages
ASSUME NoneAssumption == None \notin Nat
ASSUME BoundsAssumption == {MaxTabs, MaxHistory, MaxUpsets} \subseteq Nat

-------------------------------------------------------------------------------
Tabs == 1..MaxTabs
Unfetched == None       \* list before the first answer

\* "/" is Home, a path of no workspace.
Path == [slug : Slugs, page : Pages]
Home == [slug |-> None, page |-> "root"]
RootOf(s) == [slug |-> s, page |-> "root"]

Trail == [i : Nat, n : Nat \ {0}]
NewTrail == [i |-> 0, n |-> 1]

\* byWorkspace and activeWorkspaceSlug.  A tab is in the group of its owner.
Store == [made : 0..MaxTabs,
          groups : SUBSET Slugs,
          owner : [Tabs -> Slugs \cup {None}],
          path : [Tabs -> Path \cup {Home}],
          trail : [Tabs -> Trail],                       \* historyIndex, historyLength
          activeTab : [Slugs -> Tabs \cup {None}],
          activeSlug : Slugs \cup {None}]

Router == [entries : Seq(Path \cup {Home}), at : Nat, live : BOOLEAN]
NoRouter == [entries |-> <<Home>>, at |-> 1, live |-> FALSE]
NewRouter(p) == [entries |-> <<p>>, at |-> 1, live |-> TRUE]
Location(r) == r.entries[r.at]

EmptyStore(made) ==
    [made |-> made, groups |-> {}, owner |-> [t \in Tabs |-> None],
     path |-> [t \in Tabs |-> Home], trail |-> [t \in Tabs |-> NewTrail],
     activeTab |-> [s \in Slugs |-> None], activeSlug |-> None]

TypeOK ==
    /\ signedIn \in BOOLEAN
    /\ members \subseteq Slugs
    /\ list = Unfetched \/ list \subseteq Slugs
    /\ store \in Store
    /\ router \in [Tabs -> Router]
    /\ \A t \in Tabs : router[t].at \in 1..Len(router[t].entries)
    /\ refs \in [Tabs -> Trail]
    /\ upsets \in 0..MaxUpsets
    /\ visited \subseteq Tabs /\ stray \subseteq Tabs /\ unseen \subseteq Tabs

Init ==
    /\ signedIn = FALSE
    /\ members \in SUBSET Slugs
    /\ list = Unfetched
    /\ store = EmptyStore(0)
    /\ router = [t \in Tabs |-> NoRouter]
    /\ refs = [t \in Tabs |-> NewTrail]
    /\ upsets = 0
    /\ visited = {} /\ stray = {} /\ unseen = {}

-------------------------------------------------------------------------------
(* The store's operations, as functions of the store and the routers. *)

TabsOf(st, s) == {t \in Tabs : st.owner[t] = s}

\* The tab TabContent shows, and whose effects run.
Shown(st) == IF st.activeSlug = None THEN None ELSE st.activeTab[st.activeSlug]

\* makeTab: the next id, in the group of s, at p.
Made(st, s, p) ==
    LET t == st.made + 1
    IN [st EXCEPT !.made = t, !.owner[t] = s, !.path[t] = p, !.trail[t] = NewTrail]

Routed(rt, t, p) == [rt EXCEPT ![t] = NewRouter(p)]

\* dispose() of the routers of the tabs in ts: nobody reads their history again, a
\* page that is still awaiting something knows its own location.
Disposed(rt, ts) ==
    [t \in Tabs |-> IF t \in ts
                    THEN [entries |-> <<Location(rt[t])>>, at |-> 1, live |-> FALSE]
                    ELSE rt[t]]

\* The tabs in ts leave their groups.
Dropped(st, ts) ==
    [st EXCEPT !.owner = [t \in Tabs |-> IF t \in ts THEN None ELSE @[t]],
               !.path = [t \in Tabs |-> IF t \in ts THEN Home ELSE @[t]],
               !.trail = [t \in Tabs |-> IF t \in ts THEN NewTrail ELSE @[t]]]

\* Several tabs may have one path; find() takes the first of them.
Matches(st, s, p) == {t \in TabsOf(st, s) : st.path[t] = p}

\* What React does after a change of the store: another workspace's tabs mount
\* with new refs, and the tab that becomes visible runs its effect, which copies
\* the router's location.
Commit(st, rt) ==
    LET shown == Shown(st)
        switched == st.activeSlug # store.activeSlug
        revealed == signedIn /\ shown # None /\ (switched \/ shown # Shown(store))
    IN /\ store' = IF revealed THEN [st EXCEPT !.path[shown] = Location(rt[shown])]
                               ELSE st
       /\ router' = rt
       /\ refs' = IF switched THEN [t \in Tabs |-> NewTrail] ELSE refs
       /\ visited' = IF revealed THEN visited \cup {shown} ELSE visited

\* switchWorkspace(slug, openPath): the group is made, or a tab with the path found
\* or added.  ListArrives has the call without a path.
SwitchWorkspace(s, p) ==
    \/ \E t \in Matches(store, s, p) :
          Commit([store EXCEPT !.activeSlug = s, !.activeTab[s] = t], router)
    \/ /\ Matches(store, s, p) = {}
       /\ store.made < MaxTabs
       /\ LET made == Made(store, s, p)
          IN Commit([made EXCEPT !.groups = @ \cup {s}, !.activeSlug = s,
                                 !.activeTab[s] = made.made],
                    Routed(router, made.made, p))

\* openTab and the setActiveTab every caller makes next: in the active group.
OpenTab(p) ==
    /\ store.activeSlug # None
    /\ LET s == store.activeSlug
       IN \/ \E t \in Matches(store, s, p) :
                Commit([store EXCEPT !.activeTab[s] = t], router)
          \/ /\ Matches(store, s, p) = {}
             /\ store.made < MaxTabs
             /\ LET made == Made(store, s, p)
                IN Commit([made EXCEPT !.activeTab[s] = made.made],
                          Routed(router, made.made, p))

\* Mutant of Validated: the active group is looked up among the old ones.
ValidatedLoose(valid) ==
    LET gone == {t \in Tabs : store.owner[t] # None /\ store.owner[t] \notin valid}
    IN [store |-> {[Dropped(store, gone) EXCEPT !.groups = @ \cap valid, !.activeSlug = next] :
                     next \in IF store.activeSlug \in valid \cup {None}
                              THEN {store.activeSlug} ELSE store.groups},
        router |-> Disposed(router, gone)]

\* validateWorkspaceSlugs: the stores it may leave (the first of the groups that
\* are left becomes active), and the routers.
Validated(valid) ==
    LET gone == {t \in Tabs : store.owner[t] # None /\ store.owner[t] \notin valid}
        left == store.groups \cap valid
    IN [store |-> {[Dropped(store, gone) EXCEPT
                        !.groups = left,
                        !.activeTab = [s \in Slugs |-> IF s \in left THEN @[s] ELSE None],
                        !.activeSlug = next] :
                     next \in IF store.activeSlug \in valid \cup {None}
                              THEN {store.activeSlug}
                              ELSE IF left = {} THEN {None} ELSE left},
        router |-> Disposed(router, gone)]

-------------------------------------------------------------------------------
(* Routers. *)

\* navigate(p): the entries beyond the current one are cut off.
Pushed(r, p) == [r EXCEPT !.entries = Append(SubSeq(@, 1, r.at), p), !.at = @ + 1]
Replaced(r, p) == [r EXCEPT !.entries[r.at] = p]

\* navigate(-1), navigate(1): a memory history clamps.
Popped(r, back) ==
    [r EXCEPT !.at = IF back THEN (IF @ = 1 THEN 1 ELSE @ - 1)
                     ELSE (IF @ = Len(r.entries) THEN @ ELSE @ + 1)]

\* Mutant of TrailPushed: the entries cut off are still counted.
TrailKept(k) == [i |-> k.i + 1, n |-> IF k.n > k.i + 2 THEN k.n ELSE k.i + 2]

\* Mutant of TrailPopped: nothing stops the index at 0.
TrailPoppedFreely(k, back) ==
    [k EXCEPT !.i = IF back THEN @ - 1
                    ELSE (IF @ + 1 < k.n THEN @ + 1 ELSE k.n - 1)]

\* The subscription's bookkeeping of a PUSH and of a POP.
TrailPushed(k) == [i |-> k.i + 1, n |-> k.i + 2]
TrailPopped(k, back) ==
    [k EXCEPT !.i = IF back THEN (IF @ = 0 THEN 0 ELSE @ - 1)
                    ELSE (IF @ + 1 < k.n THEN @ + 1 ELSE k.n - 1)]

\* The visible tab's router moves to r; its hook keeps the trail k.
Moves(t, r, k) ==
    /\ router' = [router EXCEPT ![t] = r]
    /\ refs' = [refs EXCEPT ![t] = k]
    /\ store' = [store EXCEPT !.path[t] = Location(r), !.trail[t] = k]
    /\ UNCHANGED visited

\* A router moves that nobody listens to.
MovesUnseen(t, r) ==
    /\ router' = [router EXCEPT ![t] = r]
    /\ unseen' = unseen \cup {t}
    /\ UNCHANGED <<store, refs, visited>>

-------------------------------------------------------------------------------
(* The adapters. *)

Upset == upsets < MaxUpsets /\ upsets' = upsets + 1

Visible(t) == signedIn /\ t = Shown(store) /\ t # None

\* What a link can lead to: a workspace of the user's, one of the cached list, the
\* one that is open.
Linked(p) ==
    p.slug \in members \cup {store.activeSlug} \cup (IF list = Unfetched THEN {} ELSE list)

\* push(path), from the shell or the visible page: another workspace's path
\* switches the group, one of this workspace goes to the tab's router.
Push(p) ==
    /\ signedIn /\ Linked(p)
    /\ IF p.slug # store.activeSlug
       THEN SwitchWorkspace(p.slug, p)
       ELSE LET t == Shown(store)
            IN /\ router[t].at < MaxHistory
               /\ Moves(t, Pushed(router[t], p), TrailPushed(refs[t]))
    /\ UNCHANGED <<session, upsets, stray, unseen>>

\* push("/workspaces/new"), "/onboarding": the overlay takes over and the tab is
\* parked on "/".
PushTransition ==
    /\ Upset
    /\ signedIn
    /\ \E t \in Tabs : /\ Visible(t)
                       /\ Location(router[t]) # Home
                       /\ Moves(t, Replaced(router[t], Home), refs[t])
    /\ UNCHANGED <<session, stray, unseen>>

\* A page that was shown pushes a path of its own workspace when its tab is not
\* visible any more: hidden, of another workspace, closed, or the user signed out.
PushLate(t, page) ==
    /\ Upset
    /\ t \in visited /\ ~Visible(t)
    /\ LET s == Location(router[t]).slug
           p == [slug |-> s, page |-> page]
       IN /\ s # None
          /\ IF s # store.activeSlug
             THEN SwitchWorkspace(s, p) /\ UNCHANGED unseen
             ELSE /\ router[t].live /\ router[t].at < MaxHistory
                  /\ MovesUnseen(t, Pushed(router[t], p))
    /\ UNCHANGED <<session, stray>>

\* The arrows of the title bar, and back() of a page.
GoBack ==
    /\ \E t \in Tabs :
          /\ Visible(t) /\ store.trail[t].i > 0
          /\ Moves(t, Popped(router[t], TRUE), TrailPopped(refs[t], TRUE))
    /\ UNCHANGED <<session, upsets, stray, unseen>>

GoForward ==
    /\ \E t \in Tabs :
          /\ Visible(t) /\ store.trail[t].i + 1 < store.trail[t].n
          /\ Moves(t, Popped(router[t], FALSE), TrailPopped(refs[t], FALSE))
    /\ UNCHANGED <<session, upsets, stray, unseen>>

PageBack ==
    /\ \E t \in Tabs :
          /\ Visible(t)
          /\ Moves(t, Popped(router[t], TRUE), TrailPopped(refs[t], TRUE))
    /\ UNCHANGED <<session, upsets, stray, unseen>>

\* Mutant of OpenInNewTab: the workspace of the path is not looked at.
OpenInNewTabHere(p) ==
    /\ signedIn /\ Linked(p)
    /\ OpenTab(p)
    /\ UNCHANGED <<session, upsets, stray, unseen>>

\* openInNewTab(path).
OpenInNewTab(p) ==
    /\ signedIn /\ Linked(p)
    /\ IF p.slug # store.activeSlug THEN SwitchWorkspace(p.slug, p) ELSE OpenTab(p)
    /\ UNCHANGED <<session, upsets, stray, unseen>>

\* The click on a notification of workspace p.slug: multica:navigate opens the
\* path in the active group, whichever that is.
OpenNotified(p) ==
    /\ Upset
    /\ signedIn /\ p.slug \in members
    /\ OpenTab(p)
    /\ stray' = IF p.slug # store.activeSlug
                THEN stray \cup {Shown(store')} ELSE stray
    /\ UNCHANGED <<session, unseen>>

-------------------------------------------------------------------------------
(* The tab bar. *)

\* NewTabButton: addTab never looks for an open tab.
NewTab ==
    /\ signedIn /\ store.activeSlug # None
    /\ store.made < MaxTabs
    /\ LET s == store.activeSlug
           made == Made(store, s, RootOf(s))
       IN Commit([made EXCEPT !.activeTab[s] = made.made],
                 Routed(router, made.made, RootOf(s)))
    /\ UNCHANGED <<session, upsets, stray, unseen>>

SetActiveTab(t) ==
    /\ signedIn /\ store.activeSlug # None
    /\ t \in TabsOf(store, store.activeSlug) \ {Shown(store)}
    /\ Commit([store EXCEPT !.activeTab[store.activeSlug] = t], router)
    /\ UNCHANGED <<session, upsets, stray, unseen>>

\* The last tab of a group is replaced by a default one.
CloseTab(t) ==
    /\ signedIn /\ store.activeSlug # None
    /\ LET s == store.activeSlug
           others == TabsOf(store, s) \ {t}
           closed == Dropped(store, {t})
           made == Made(closed, s, RootOf(s))
           rt == Disposed(router, {t})
       IN /\ store.owner[t] = s
          /\ \/ /\ others = {} /\ store.made < MaxTabs
                /\ Commit([made EXCEPT !.activeTab[s] = made.made],
                          Routed(rt, made.made, RootOf(s)))
             \/ \E next \in IF t = store.activeTab[s] THEN others
                            ELSE {x \in others : x = store.activeTab[s]} :
                   Commit([closed EXCEPT !.activeTab[s] = next], rt)
    /\ UNCHANGED <<session, upsets, stray, unseen>>

-------------------------------------------------------------------------------
(* Sessions and the workspace list. *)

\* Mutant of ListArrives: no workspace is entered.
ListValidates ==
    /\ signedIn /\ list # members
    /\ list' = members
    /\ LET valid == Validated(members)
       IN \E st \in valid.store : Commit(st, valid.router)
    /\ UNCHANGED <<signedIn, members, upsets, stray, unseen>>

\* The layout effect of AppContent, when the list it has read is new: validate,
\* and enter a workspace when none is active.
ListArrives ==
    /\ signedIn /\ list # members
    /\ list' = members
    /\ LET valid == Validated(members)
       IN \E st \in valid.store :
             IF st.activeSlug = None /\ members # {}
             THEN \E s \in members :
                     /\ st.made < MaxTabs
                     /\ LET made == Made(st, s, RootOf(s))
                        IN Commit([made EXCEPT !.groups = @ \cup {s}, !.activeSlug = s,
                                               !.activeTab[s] = made.made],
                                  Routed(valid.router, made.made, RootOf(s)))
             ELSE Commit(st, valid.router)
    /\ UNCHANGED <<signedIn, members, upsets, stray, unseen>>

\* The effect of WorkspaceRouteLayout in a tab whose slug is not in the list.  (That
\* the instance never saw the slug in the list is left out: a group whose slug was
\* in the list went with the list that dropped it.)
Heal ==
    /\ signedIn /\ list # Unfetched
    /\ \E t \in Tabs : /\ Visible(t)
                       /\ Location(router[t]).slug \notin list \cup {None}
    /\ LET valid == Validated(list)
       IN \E st \in valid.store : Commit(st, valid.router)
    /\ UNCHANGED <<session, upsets, stray, unseen>>

\* The user joins, creates, leaves or loses a workspace, here or elsewhere.
MembersChange ==
    /\ Upset
    /\ \E s \in Slugs : members' = (members \ {s}) \cup ({s} \ members)
    /\ UNCHANGED <<signedIn, list, store, router, refs, visited, stray, unseen>>

\* Login: of the same user or of another.
Login ==
    /\ ~signedIn /\ signedIn' = TRUE
    /\ members' \in SUBSET Slugs
    /\ list' = Unfetched
    /\ refs' = [t \in Tabs |-> NewTrail]
    /\ visited' = IF Shown(store) = None THEN visited ELSE visited \cup {Shown(store)}
    /\ UNCHANGED <<upsets, store, router, stray, unseen>>

\* useLogout and handleDaemonLogout: reset, the query cache is cleared.  A launch
\* whose session cannot be restored ends here too.
Logout ==
    /\ signedIn /\ signedIn' = FALSE
    /\ Upset
    /\ list' = Unfetched
    /\ store' = EmptyStore(store.made)
    /\ router' = Disposed(router, Tabs)
    /\ UNCHANGED <<members, refs, visited, stray, unseen>>

\* normalizePersistedTab and the check of merge.
Normalised(p) == IF p.page = "issues" THEN RootOf(p.slug) ELSE p
Kept(t) == store.owner[t] # None /\ store.path[t].slug = store.owner[t]

\* The app quits and starts: the persisted store is merged, every tab gets a new
\* router with the one entry of its path.
Relaunch ==
    /\ Upset
    /\ LET kept == {t \in Tabs : Kept(t)}
           groups == {store.owner[t] : t \in kept}
           path == [t \in Tabs |-> IF t \in kept THEN Normalised(store.path[t]) ELSE Home]
           owned(s) == {t \in kept : store.owner[t] = s}
       IN /\ \E active \in [Slugs -> Tabs \cup {None}],
                next \in IF store.activeSlug \in groups THEN {store.activeSlug}
                         ELSE IF groups = {} THEN {None} ELSE groups :
                /\ \A s \in Slugs :
                      active[s] \in IF owned(s) = {} THEN {None}
                                    ELSE IF store.activeTab[s] \in owned(s)
                                         THEN {store.activeTab[s]} ELSE owned(s)
                /\ store' = [made |-> store.made, groups |-> groups,
                             owner |-> [t \in Tabs |-> IF t \in kept THEN store.owner[t]
                                                       ELSE None],
                             path |-> path, trail |-> [t \in Tabs |-> NewTrail],
                             activeTab |-> active, activeSlug |-> next]
                /\ visited' = IF signedIn /\ next # None THEN {active[next]} ELSE {}
          /\ router' = [t \in Tabs |-> IF t \in kept THEN NewRouter(path[t]) ELSE NoRouter]
    /\ refs' = [t \in Tabs |-> NewTrail]
    /\ list' = Unfetched
    /\ stray' = {} /\ unseen' = {}
    /\ UNCHANGED <<signedIn, members>>

Next ==
    \/ \E p \in Path : Push(p) \/ OpenInNewTab(p) \/ OpenNotified(p)
    \/ PushTransition \/ GoBack \/ GoForward \/ PageBack
    \/ \E t \in Tabs, page \in Pages : PushLate(t, page)
    \/ NewTab
    \/ \E t \in Tabs : SetActiveTab(t) \/ CloseTab(t)
    \/ ListArrives \/ Heal \/ MembersChange
    \/ Login \/ Logout \/ Relaunch

Spec == Init /\ [][Next]_vars

-------------------------------------------------------------------------------
(* Properties. *)

\* Every group has tabs and shows one of them, one group is active if there is any,
\* and exactly the routers of the tabs in a group are alive: closing, resetting and
\* validating dispose what they drop ("every live workspace has at least one tab").
GroupsValid ==
    /\ IF store.groups = {} THEN store.activeSlug = None ELSE store.activeSlug \in store.groups
    /\ \A s \in store.groups : store.activeTab[s] \in TabsOf(store, s)
    /\ \A t \in Tabs : store.owner[t] \in store.groups \cup {None}
    /\ \A t \in Tabs : router[t].live <=> store.owner[t] # None

\* A tab of a workspace shows a path of that workspace, whatever pages push late
\* and whatever switches: the navigation adapters send every other path to the
\* group it belongs to.  The tabs a click on a notification opened are left out.
ScopedTabs ==
    \A t \in Tabs \ stray : store.owner[t] # None =>
        /\ Location(router[t]).slug \in {store.owner[t], None}
        /\ store.path[t].slug \in {store.owner[t], None}

\* "Cross-workspace tab leakage is impossible by construction": no tab of any
\* group shows a path of another workspace.
NoLeakage ==
    \A t \in Tabs : store.owner[t] # None =>
        Location(router[t]).slug \in {store.owner[t], None}

\* A signed-in user whose list has workspaces sees a page of one of them, unless
\* the heal effect is about to drop the visible tab or the tab was parked on "/":
\* late pushes into a lost workspace, lists that shrink and relaunches leave no
\* blank window.  The tabs a notification opened are left out.
NeverStranded ==
    signedIn /\ list \notin {Unfetched, {}} =>
        \E t \in Tabs : /\ Visible(t)
                       /\ \/ Location(router[t]).slug \in list \cup {None}
                          \/ store.owner[t] \notin list
                          \/ t \in stray

\* An arrow of the title bar that is enabled does move its tab, however PUSHes
\* after a back, remounts of the hook and pops of the page interleave.  Routers
\* that moved while their tab was hidden are left out.
ButtonsWork ==
    \A t \in Tabs \ unseen : store.owner[t] # None =>
        /\ store.trail[t].i > 0 => router[t].at > 1
        /\ store.trail[t].i + 1 < store.trail[t].n => router[t].at < Len(router[t].entries)

===============================================================================
