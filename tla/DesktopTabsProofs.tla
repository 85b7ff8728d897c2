------------------------- MODULE DesktopTabsProofs -------------------------
(***************************************************************************)
(* Proofs about DesktopTabs, for any workspaces, pages, tabs and histories. *)
(***************************************************************************)
EXTENDS DesktopTabs, TLAPS

Locations == Path \cup {Home}

\* A router stands at one of its entries.
RouterOK(r) == r \in Router /\ r.at \in 1..Len(r.entries)

\* A path a tab of workspace s may have.
Within(p, s) == p.slug \in {s, None}

\* The parts of the invariant speak of any store st, routers rt and strays sy, so
\* that they can be stated between two operations of one step.
Typed(st, rt) ==
    /\ st \in Store
    /\ rt \in [Tabs -> Router]
    /\ \A t \in Tabs : rt[t].at \in 1..Len(rt[t].entries)

\* A tab in a group was made.
Known(st) == \A t \in Tabs : st.owner[t] # None => t <= st.made

\* What GroupsValid says, with the groups that have a tab to show.
Covered(st, s) == st.activeTab[s] \in TabsOf(st, s)
Owned(st, rt) ==
    /\ \A t \in Tabs : st.owner[t] \in st.groups \cup {None}
    /\ \A t \in Tabs : rt[t].live <=> st.owner[t] # None
Entered(st) ==
    IF st.groups = {} THEN st.activeSlug = None ELSE st.activeSlug \in st.groups

Scoped(st, rt, sy) ==
    \A t \in Tabs \ sy : st.owner[t] # None =>
        /\ Within(st.path[t], st.owner[t])
        /\ \A i \in 1..Len(rt[t].entries) : Within(rt[t].entries[i], st.owner[t])

\* Everything but group s, which may have lost the tab it shows.
Almost(st, rt, sy, s) ==
    /\ Typed(st, rt) /\ Known(st) /\ Owned(st, rt) /\ Scoped(st, rt, sy)
    /\ \A x \in st.groups \ {s} : Covered(st, x)

Good(st, rt, sy) ==
    /\ Typed(st, rt) /\ Known(st) /\ Owned(st, rt) /\ Scoped(st, rt, sy)
    /\ \A s \in st.groups : Covered(st, s)
    /\ Entered(st)

\* The rest of the state, whose types no step needs to argue about.
Rest ==
    /\ signedIn \in BOOLEAN
    /\ members \subseteq Slugs
    /\ list = Unfetched \/ list \subseteq Slugs
    /\ refs \in [Tabs -> Trail]
    /\ upsets \in 0..MaxUpsets
    /\ visited \subseteq Tabs /\ stray \subseteq Tabs /\ unseen \subseteq Tabs

\* The invariant that every step preserves: GroupsValid and TypeOK, with all the
\* entries of a router in scope, since a pop makes any of them the location.
IInv == Good(store, router, stray) /\ Rest

-----------------------------------------------------------------------------
(* Routers. *)

\* Where a router stands is one of its entries.
LEMMA LocationOf ==
    ASSUME NEW r, RouterOK(r)
    PROVE  /\ Location(r) \in Locations
           /\ \E i \in 1..Len(r.entries) : Location(r) = r.entries[i]
<1>1. r.entries \in Seq(Locations) /\ r.at \in 1..Len(r.entries)
  BY DEF RouterOK, Router, Locations
<1> QED
  BY <1>1 DEF Location

\* A push leaves a router standing at the path pushed, above entries it had.
LEMMA PushOf ==
    ASSUME NEW r, RouterOK(r), NEW p \in Locations
    PROVE  /\ RouterOK(Pushed(r, p))
           /\ Pushed(r, p).live = r.live
           /\ Location(Pushed(r, p)) = p
           /\ \A i \in 1..Len(Pushed(r, p).entries) :
                 \/ Pushed(r, p).entries[i] = p
                 \/ \E j \in 1..Len(r.entries) : Pushed(r, p).entries[i] = r.entries[j]
<1> DEFINE cut == SubSeq(r.entries, 1, r.at)
<1>1. r.entries \in Seq(Locations) /\ r.at \in 1..Len(r.entries) /\ r.live \in BOOLEAN
  BY DEF RouterOK, Router, Locations
<1>2. /\ cut \in Seq(Locations) /\ Len(cut) = r.at
      /\ \A i \in 1..r.at : cut[i] = r.entries[i]
  BY <1>1
<1>3. /\ Append(cut, p) \in Seq(Locations) /\ Len(Append(cut, p)) = r.at + 1
      /\ Append(cut, p)[r.at + 1] = p
      /\ \A i \in 1..r.at : Append(cut, p)[i] = r.entries[i]
  BY <1>1, <1>2
<1>4. /\ Pushed(r, p).entries = Append(cut, p) /\ Pushed(r, p).at = r.at + 1
      /\ Pushed(r, p).live = r.live
  BY DEF Pushed, RouterOK, Router
<1> HIDE DEF cut
<1>6. Pushed(r, p) \in Router
  <2>1. ASSUME NEW e \in Seq(Locations), NEW n \in Nat
        PROVE  [r EXCEPT !.entries = e, !.at = n] \in Router
    BY DEF RouterOK, Router, Locations
  <2>2. Pushed(r, p) = [r EXCEPT !.entries = Append(cut, p), !.at = r.at + 1]
    BY DEF Pushed, cut
  <2>3. r.at + 1 \in Nat
    BY <1>1
  <2> QED
    BY <1>3, <2>1, <2>2, <2>3
<1>5. RouterOK(Pushed(r, p))
  BY <1>1, <1>3, <1>4, <1>6 DEF RouterOK
<1> QED
  BY <1>1, <1>3, <1>4, <1>5 DEF Location

\* A replacement changes the entry the router stands at.
LEMMA ReplaceOf ==
    ASSUME NEW r, RouterOK(r), NEW p \in Locations
    PROVE  /\ RouterOK(Replaced(r, p))
           /\ Replaced(r, p).live = r.live
           /\ \A i \in 1..Len(Replaced(r, p).entries) :
                 \/ Replaced(r, p).entries[i] = p
                 \/ \E j \in 1..Len(r.entries) : Replaced(r, p).entries[i] = r.entries[j]
<1>1. r.entries \in Seq(Locations) /\ r.at \in 1..Len(r.entries) /\ r.live \in BOOLEAN
  BY DEF RouterOK, Router, Locations
<1>2. Replaced(r, p) = [entries |-> [r.entries EXCEPT ![r.at] = p], at |-> r.at,
                        live |-> r.live]
  BY DEF Replaced, RouterOK, Router
<1>3. /\ [r.entries EXCEPT ![r.at] = p] \in Seq(Locations)
      /\ Len([r.entries EXCEPT ![r.at] = p]) = Len(r.entries)
      /\ \A i \in 1..Len(r.entries) :
            [r.entries EXCEPT ![r.at] = p][i] \in {p, r.entries[i]}
  BY <1>1
<1> QED
  BY <1>1, <1>2, <1>3 DEF RouterOK, Router, Locations

\* A pop stays among the entries.
LEMMA PopOf ==
    ASSUME NEW r, RouterOK(r), NEW back \in BOOLEAN
    PROVE  /\ RouterOK(Popped(r, back))
           /\ Popped(r, back).live = r.live /\ Popped(r, back).entries = r.entries
BY DEF RouterOK, Router, Popped

\* The trails of the subscription have their type.
LEMMA TrailsOf ==
    ASSUME NEW k \in Trail, NEW back \in BOOLEAN
    PROVE  TrailPushed(k) \in Trail /\ TrailPopped(k, back) \in Trail /\ NewTrail \in Trail
BY DEF Trail, TrailPushed, TrailPopped, NewTrail

-----------------------------------------------------------------------------
(* The store's operations. *)

\* A tab made has its group, its path and a router of its own; the others are as
\* they were.
LEMMA MadeOf ==
    ASSUME NEW st \in Store, NEW s \in Slugs, NEW p \in Path, st.made < MaxTabs
    PROVE  LET made == Made(st, s, p)
           IN /\ made \in Store /\ st.made + 1 \in Tabs
              /\ made.made = st.made + 1 /\ made.groups = st.groups
              /\ made.owner = [st.owner EXCEPT ![st.made + 1] = s]
              /\ made.path = [st.path EXCEPT ![st.made + 1] = p]
              /\ made.activeTab = st.activeTab /\ made.activeSlug = st.activeSlug
<1>1. st.made \in Nat /\ MaxTabs \in Nat /\ st.made + 1 \in Tabs
      /\ st.made + 1 \in 0..MaxTabs
  BY BoundsAssumption DEF Store, Tabs
<1>2. NewTrail \in Trail
  BY DEF NewTrail, Trail
<1> QED
  BY <1>1, <1>2 DEF Made, Store

\* A router made for a tab stands at its one entry.
LEMMA RoutedOf ==
    ASSUME NEW rt \in [Tabs -> Router], \A t \in Tabs : rt[t].at \in 1..Len(rt[t].entries),
           NEW t \in Tabs, NEW p \in Locations
    PROVE  /\ Routed(rt, t, p) \in [Tabs -> Router]
           /\ \A u \in Tabs : u # t => Routed(rt, t, p)[u] = rt[u]
           /\ \A u \in Tabs : Routed(rt, t, p)[u].at \in 1..Len(Routed(rt, t, p)[u].entries)
           /\ Routed(rt, t, p)[t].live
           /\ \A i \in 1..Len(Routed(rt, t, p)[t].entries) :
                 Routed(rt, t, p)[t].entries[i] = p
<1>1. /\ NewRouter(p) \in Router /\ NewRouter(p).live
      /\ NewRouter(p).at \in 1..Len(NewRouter(p).entries)
      /\ \A i \in 1..Len(NewRouter(p).entries) : NewRouter(p).entries[i] = p
  BY DEF NewRouter, Router, Locations
<1> QED
  BY <1>1 DEF Routed

\* A workspace entered with a new tab of its own ends with a store in order, even if
\* its group had lost the tab it showed.
LEMMA EnterKeeps ==
    ASSUME NEW st, NEW rt, NEW sy, NEW s \in Slugs, NEW p \in Path, NEW new \in Store,
           Almost(st, rt, sy, s), st.made < MaxTabs,
           p.slug = s \/ st.made + 1 \in sy,
           new.made = st.made + 1, new.groups = st.groups \cup {s},
           new.owner = [st.owner EXCEPT ![st.made + 1] = s],
           new.path = [st.path EXCEPT ![st.made + 1] = p],
           new.activeTab = [st.activeTab EXCEPT ![s] = st.made + 1],
           new.activeSlug = s
    PROVE  Good(new, Routed(rt, st.made + 1, p), sy)
<1> DEFINE t0 == st.made + 1
           rt2 == Routed(rt, t0, p)
<1>1. /\ st \in Store /\ st.made \in Nat /\ MaxTabs \in Nat /\ t0 \in Tabs
      /\ st.owner \in [Tabs -> Slugs \cup {None}]
      /\ st.path \in [Tabs -> Locations]
      /\ st.activeTab \in [Slugs -> Tabs \cup {None}]
  BY BoundsAssumption DEF Almost, Typed, Store, Tabs, Locations
<1>2. st.owner[t0] = None /\ ~rt[t0].live
  BY <1>1 DEF Almost, Known, Owned
<1>3. /\ rt2 \in [Tabs -> Router]
      /\ \A u \in Tabs : u # t0 => rt2[u] = rt[u]
      /\ \A u \in Tabs : rt2[u].at \in 1..Len(rt2[u].entries)
      /\ rt2[t0].live
      /\ \A i \in 1..Len(rt2[t0].entries) : rt2[t0].entries[i] = p
  <2>1. p \in Locations
    BY DEF Locations
  <2>2. rt \in [Tabs -> Router] /\ \A t \in Tabs : rt[t].at \in 1..Len(rt[t].entries)
    BY DEF Almost, Typed
  <2>3. t0 \in Tabs
    BY <1>1
  <2> HIDE DEF t0
  <2> QED
    BY <2>1, <2>2, <2>3, RoutedOf
<1>4. /\ new.owner[t0] = s /\ new.path[t0] = p /\ new.activeTab[s] = t0
      /\ \A u \in Tabs : u # t0 => new.owner[u] = st.owner[u] /\ new.path[u] = st.path[u]
      /\ \A x \in Slugs : x # s => new.activeTab[x] = st.activeTab[x]
  BY <1>1
<1>5. s # None
  BY SlugsAssumption
<1> HIDE DEF rt2
<1>6. Typed(new, rt2)
  BY <1>3 DEF Typed
<1>7. Known(new)
  BY <1>1, <1>4 DEF Almost, Known, Tabs
<1>8. Owned(new, rt2)
  BY <1>3, <1>4, <1>5 DEF Almost, Owned
<1>9. Scoped(new, rt2, sy)
  BY <1>3, <1>4 DEF Almost, Scoped, Within
<1>10. ASSUME NEW x \in new.groups
       PROVE  Covered(new, x)
  <2>1. CASE x = s
    BY <1>1, <1>4, <2>1 DEF Covered, TabsOf
  <2>2. CASE x # s
    <3>1. x \in st.groups \ {s} /\ x \in Slugs
      BY <1>1, <2>2 DEF Store
    <3>2. Covered(st, x)
      BY <3>1 DEF Almost
    <3> QED
      BY <1>1, <1>2, <1>4, <2>2, <3>1, <3>2, SlugsAssumption DEF Covered, TabsOf
  <2> QED
    BY <2>1, <2>2
<1>11. Entered(new)
  BY DEF Entered
<1> QED
  BY <1>6, <1>7, <1>8, <1>9, <1>10, <1>11 DEF Good, rt2

\* So does a workspace entered at a tab it has.
LEMMA SelectKeeps ==
    ASSUME NEW st, NEW rt, NEW sy, NEW s \in Slugs, NEW t \in TabsOf(st, s),
           NEW new \in Store, Almost(st, rt, sy, s),
           new.made = st.made, new.groups = st.groups, new.owner = st.owner,
           new.path = st.path, new.activeTab = [st.activeTab EXCEPT ![s] = t],
           new.activeSlug = s
    PROVE  Good(new, rt, sy)
<1>1. t \in Tabs /\ st.owner[t] = s /\ s # None /\ s \in st.groups
  BY SlugsAssumption DEF TabsOf, Almost, Owned
<1>2. st.activeTab \in [Slugs -> Tabs \cup {None}] /\ st.groups \subseteq Slugs
  BY DEF Almost, Typed, Store
<1>3. \A x \in new.groups : Covered(new, x)
  BY <1>1, <1>2 DEF Almost, Covered, TabsOf
<1>4. Typed(new, rt) /\ Known(new) /\ Owned(new, rt) /\ Scoped(new, rt, sy)
  BY DEF Almost, Typed, Known, Owned, Scoped
<1> QED
  BY <1>1, <1>3, <1>4 DEF Good, Entered

\* It shows the tab the change chose.
LEMMA CommitShows ==
    ASSUME NEW st \in Store, NEW rt, Commit(st, rt)
    PROVE  Shown(store') = Shown(st)
<1> DEFINE shown == Shown(st)
           copied == [st EXCEPT !.path[shown] = Location(rt[shown])]
<1>1. store' \in {st, copied}
  BY DEF Commit
<1>2. copied.activeSlug = st.activeSlug /\ copied.activeTab = st.activeTab
  <2> HIDE DEF shown
  <2> QED
    BY DEF Store
<1> HIDE DEF copied
<1> QED
  BY <1>1, <1>2 DEF Shown

\* What React does after a change keeps a store in order: it copies at most the
\* location of the tab that becomes visible.
LEMMA CommitKeeps ==
    ASSUME NEW st, NEW rt, NEW sy, Good(st, rt, sy), Rest, Commit(st, rt)
    PROVE  /\ Good(store', router', sy)
           /\ refs' \in [Tabs -> Trail] /\ visited' \subseteq Tabs
<1> DEFINE shown == Shown(st)
<1>1. router' = rt /\ refs' \in [Tabs -> Trail]
  BY TrailsOf DEF Commit, Rest, NewTrail, Trail
<1>2. /\ st \in Store /\ rt \in [Tabs -> Router]
      /\ st.activeSlug \in Slugs \cup {None}
  BY DEF Good, Typed, Store
<1>3. ASSUME shown # None
      PROVE  shown \in Tabs /\ Location(rt[shown]) \in Locations
             /\ \E i \in 1..Len(rt[shown].entries) :
                   Location(rt[shown]) = rt[shown].entries[i]
  <2>1. shown \in Tabs
    BY <1>2, <1>3 DEF Shown, Store
  <2>2. RouterOK(rt[shown])
    BY <2>1, <1>2 DEF RouterOK, Good, Typed
  <2> HIDE DEF shown
  <2> QED
    BY <2>1, <2>2, LocationOf
<1>4. visited' \subseteq Tabs
  BY <1>3 DEF Commit, Rest
<1>5. CASE store' = st
  BY <1>1, <1>4, <1>5
<1>6. CASE shown # None /\ store' = [st EXCEPT !.path[shown] = Location(rt[shown])]
  <2> HIDE DEF shown
  <2>1. /\ store' \in Store
        /\ store'.made = st.made /\ store'.groups = st.groups /\ store'.owner = st.owner
        /\ store'.activeTab = st.activeTab /\ store'.activeSlug = st.activeSlug
        /\ store'.path = [st.path EXCEPT ![shown] = Location(rt[shown])]
        /\ st.path \in [Tabs -> Locations]
    BY <1>2, <1>3, <1>6 DEF Store, Locations
  <2>2. Typed(store', router') /\ Known(store') /\ Owned(store', router')
        /\ Entered(store') /\ \A s \in store'.groups : Covered(store', s)
    BY <1>1, <2>1 DEF Good, Typed, Known, Owned, Entered, Covered, TabsOf
  <2>3. Scoped(store', router', sy)
    BY <1>1, <1>3, <1>6, <2>1 DEF Good, Scoped, Within
  <2> QED
    BY <1>1, <1>4, <2>2, <2>3 DEF Good
<1> QED
  BY <1>5, <1>6 DEF Commit

\* A store in order has every part Almost asks for.
LEMMA GoodIsAlmost ==
    ASSUME NEW st, NEW rt, NEW sy, Good(st, rt, sy), NEW s
    PROVE  Almost(st, rt, sy, s)
BY DEF Good, Almost

\* What is in order with some strays is in order with more of them.
LEMMA MoreStrays ==
    ASSUME NEW st, NEW rt, NEW sy, NEW more, Good(st, rt, sy), sy \subseteq more
    PROVE  Good(st, rt, more)
BY DEF Good, Scoped

\* Switching to the workspace of a path.
LEMMA SwitchKeeps ==
    ASSUME IInv, NEW p \in Path, SwitchWorkspace(p.slug, p)
    PROVE  /\ Good(store', router', stray)
           /\ refs' \in [Tabs -> Trail] /\ visited' \subseteq Tabs
<1> DEFINE s == p.slug
<1>1. s \in Slugs /\ store \in Store /\ Good(store, router, stray) /\ Rest
  BY DEF Path, IInv, Good, Typed
<1>2. Almost(store, router, stray, s)
  BY <1>1, GoodIsAlmost
<1>3. ASSUME NEW t \in Matches(store, s, p),
             Commit([store EXCEPT !.activeSlug = s, !.activeTab[s] = t], router)
      PROVE  /\ Good(store', router', stray)
             /\ refs' \in [Tabs -> Trail] /\ visited' \subseteq Tabs
  <2> DEFINE new == [store EXCEPT !.activeSlug = s, !.activeTab[s] = t]
  <2>1. t \in TabsOf(store, s) /\ t \in Tabs
    BY <1>3 DEF Matches, TabsOf
  <2> HIDE DEF s
  <2>2. /\ new \in Store
        /\ new.made = store.made /\ new.groups = store.groups /\ new.owner = store.owner
        /\ new.path = store.path /\ new.activeSlug = s
        /\ new.activeTab = [store.activeTab EXCEPT ![s] = t]
    BY <1>1, <2>1 DEF Store
  <2> HIDE DEF new
  <2>3. Good(new, router, stray)
    BY <1>1, <1>2, <2>1, <2>2, SelectKeeps
  <2> QED
    BY <1>1, <1>3, <2>3, CommitKeeps DEF new, s
<1>4. ASSUME store.made < MaxTabs,
             LET made == Made(store, s, p)
             IN Commit([made EXCEPT !.groups = @ \cup {s}, !.activeSlug = s,
                                    !.activeTab[s] = made.made],
                       Routed(router, made.made, p))
      PROVE  /\ Good(store', router', stray)
             /\ refs' \in [Tabs -> Trail] /\ visited' \subseteq Tabs
  <2> DEFINE made == Made(store, s, p)
             t0 == store.made + 1
             new == [made EXCEPT !.groups = @ \cup {s}, !.activeSlug = s,
                                 !.activeTab[s] = made.made]
  <2>1. /\ made \in Store /\ t0 \in Tabs /\ made.made = t0
        /\ made.groups = store.groups
        /\ made.owner = [store.owner EXCEPT ![t0] = s]
        /\ made.path = [store.path EXCEPT ![t0] = p]
        /\ made.activeTab = store.activeTab /\ made.activeSlug = store.activeSlug
    BY <1>1, <1>4, MadeOf
  <2>2. Commit(new, Routed(router, t0, p))
    BY <1>4, <2>1
  <2> HIDE DEF made, s
  <2>3. /\ new \in Store
        /\ new.made = t0 /\ new.groups = store.groups \cup {s}
        /\ new.owner = [store.owner EXCEPT ![t0] = s]
        /\ new.path = [store.path EXCEPT ![t0] = p] /\ new.activeSlug = s
        /\ new.activeTab = [store.activeTab EXCEPT ![s] = t0]
    BY <1>1, <2>1 DEF Store
  <2> HIDE DEF new
  <2>4. Good(new, Routed(router, t0, p), stray)
    BY <1>1, <1>2, <1>4, <2>3, EnterKeeps DEF s
  <2> QED
    BY <1>1, <2>2, <2>4, CommitKeeps
<1> QED
  BY <1>3, <1>4 DEF SwitchWorkspace

\* Opening a path in the active group, with the tab it opens among the strays when
\* the path is of another workspace.
LEMMA OpenTabKeeps ==
    ASSUME IInv, NEW p \in Path, NEW sy, stray \subseteq sy, OpenTab(p),
           p.slug = store.activeSlug \/ Shown(store') \in sy
    PROVE  /\ Good(store', router', sy)
           /\ refs' \in [Tabs -> Trail] /\ visited' \subseteq Tabs
           /\ Shown(store') \in Tabs
<1> DEFINE s == store.activeSlug
<1>1. s \in Slugs /\ store \in Store /\ Good(store, router, sy) /\ Rest
  BY MoreStrays DEF OpenTab, IInv, Good, Typed, Store
<1>2. Almost(store, router, sy, s) /\ s \in store.groups
  BY <1>1, GoodIsAlmost, SlugsAssumption DEF Good, Entered
<1>3. ASSUME NEW t \in Matches(store, s, p),
             Commit([store EXCEPT !.activeTab[s] = t], router)
      PROVE  /\ Good(store', router', sy)
             /\ refs' \in [Tabs -> Trail] /\ visited' \subseteq Tabs
             /\ Shown(store') \in Tabs
  <2> DEFINE new == [store EXCEPT !.activeTab[s] = t]
  <2>1. t \in TabsOf(store, s) /\ t \in Tabs
    BY <1>3 DEF Matches, TabsOf
  <2>2. new.activeSlug = s
    BY <1>1 DEF Store
  <2> HIDE DEF s
  <2>3. /\ new \in Store
        /\ new.made = store.made /\ new.groups = store.groups /\ new.owner = store.owner
        /\ new.path = store.path
        /\ new.activeTab = [store.activeTab EXCEPT ![s] = t]
    BY <1>1, <2>1 DEF Store
  <2> HIDE DEF new
  <2>4. Good(new, router, sy)
    BY <1>1, <1>2, <2>1, <2>2, <2>3, SelectKeeps
  <2>5. Shown(store') = t
    BY <1>1, <1>3, <2>2, <2>3, CommitShows, SlugsAssumption DEF Shown, Store, new, s
  <2> QED
    BY <1>1, <1>3, <2>1, <2>4, <2>5, CommitKeeps DEF new, s
<1>4. ASSUME store.made < MaxTabs,
             LET made == Made(store, s, p)
             IN Commit([made EXCEPT !.activeTab[s] = made.made],
                       Routed(router, made.made, p))
      PROVE  /\ Good(store', router', sy)
             /\ refs' \in [Tabs -> Trail] /\ visited' \subseteq Tabs
             /\ Shown(store') \in Tabs
  <2> DEFINE made == Made(store, s, p)
             t0 == store.made + 1
             new == [made EXCEPT !.activeTab[s] = made.made]
  <2>1. /\ made \in Store /\ t0 \in Tabs /\ made.made = t0
        /\ made.groups = store.groups
        /\ made.owner = [store.owner EXCEPT ![t0] = s]
        /\ made.path = [store.path EXCEPT ![t0] = p]
        /\ made.activeTab = store.activeTab /\ made.activeSlug = s
    BY <1>1, <1>4, MadeOf
  <2>2. Commit(new, Routed(router, t0, p))
    BY <1>4, <2>1
  <2> HIDE DEF made, s
  <2>3. /\ new \in Store
        /\ new.made = t0 /\ new.groups = store.groups
        /\ new.owner = [store.owner EXCEPT ![t0] = s]
        /\ new.path = [store.path EXCEPT ![t0] = p] /\ new.activeSlug = s
        /\ new.activeTab = [store.activeTab EXCEPT ![s] = t0]
    BY <1>1, <2>1 DEF Store
  <2> HIDE DEF new
  <2>4. Shown(store') = t0
    BY <1>1, <2>2, <2>3, CommitShows, SlugsAssumption DEF Shown, Store
  <2>5. new.groups = store.groups \cup {s}
    BY <1>2, <2>3
  <2>6. Good(new, Routed(router, t0, p), sy)
    BY <1>1, <1>2, <1>4, <2>3, <2>4, <2>5, EnterKeeps DEF s
  <2> QED
    BY <1>1, <2>1, <2>2, <2>4, <2>6, CommitKeeps
<1> QED
  BY <1>3, <1>4 DEF OpenTab

\* A tab's router moves among entries in scope, with its hook listening or not.
LEMMA RouterKeeps ==
    ASSUME IInv, NEW t \in Tabs, NEW r, RouterOK(r), r.live = router[t].live,
           \A i \in 1..Len(r.entries) :
              \/ r.entries[i] = Home
              \/ t \notin stray /\ store.owner[t] # None
                   => Within(r.entries[i], store.owner[t]),
           router' = [router EXCEPT ![t] = r],
           \/ store' = store
           \/ \E k \in Trail : store' = [store EXCEPT !.path[t] = Location(r), !.trail[t] = k]
    PROVE  Good(store', router', stray)
<1>1. /\ store \in Store /\ router \in [Tabs -> Router] /\ r \in Router
      /\ Good(store, router, stray)
  BY DEF IInv, Good, Typed, RouterOK
<1>2. /\ Location(r) \in Locations
      /\ \E i \in 1..Len(r.entries) : Location(r) = r.entries[i]
  BY LocationOf
<1>3. /\ store' \in Store
      /\ store'.made = store.made /\ store'.groups = store.groups
      /\ store'.owner = store.owner /\ store'.activeTab = store.activeTab
      /\ store'.activeSlug = store.activeSlug
      /\ store.path \in [Tabs -> Locations]
      /\ store'.path \in {store.path, [store.path EXCEPT ![t] = Location(r)]}
  <2>1. CASE store' = store
    BY <1>1, <2>1 DEF Store, Locations
  <2>2. ASSUME NEW k \in Trail,
               store' = [store EXCEPT !.path[t] = Location(r), !.trail[t] = k]
        PROVE  /\ store' \in Store
               /\ store'.made = store.made /\ store'.groups = store.groups
               /\ store'.owner = store.owner /\ store'.activeTab = store.activeTab
               /\ store'.activeSlug = store.activeSlug
               /\ store'.path = [store.path EXCEPT ![t] = Location(r)]
    BY <1>1, <1>2, <2>2 DEF Store, Locations
  <2>3. store.path \in [Tabs -> Locations]
    BY <1>1 DEF Store, Locations
  <2> QED
    BY <2>1, <2>2, <2>3
<1>4. /\ router' \in [Tabs -> Router] /\ router'[t] = r
      /\ \A u \in Tabs : u # t => router'[u] = router[u]
  BY <1>1
<1>5. /\ Typed(store', router') /\ Known(store') /\ Owned(store', router')
      /\ Entered(store') /\ \A s \in store'.groups : Covered(store', s)
  <2>1. Typed(store', router')
    BY <1>1, <1>3, <1>4 DEF RouterOK, Good, Typed
  <2>2. Known(store') /\ Owned(store', router')
    BY <1>1, <1>3, <1>4 DEF Good, Known, Owned
  <2>3. Entered(store') /\ \A s \in store'.groups : Covered(store', s)
    BY <1>1, <1>3 DEF Good, Entered, Covered, TabsOf
  <2> QED
    BY <2>1, <2>2, <2>3
<1>6. Scoped(store', router', stray)
  <2> SUFFICES ASSUME NEW u \in Tabs \ stray, store'.owner[u] # None
               PROVE  /\ Within(store'.path[u], store'.owner[u])
                      /\ \A i \in 1..Len(router'[u].entries) :
                            Within(router'[u].entries[i], store'.owner[u])
    BY DEF Scoped
  <2>1. CASE u # t
    BY <1>1, <1>3, <1>4, <2>1 DEF Good, Scoped
  <2>2. CASE u = t
    <3>3. t \notin stray /\ store.owner[t] # None /\ Within(Home, store.owner[t])
      BY <1>3, <2>2 DEF Within, Home
    <3>1. \A i \in 1..Len(r.entries) : Within(r.entries[i], store.owner[t])
      BY <3>3
    <3>2. Within(store.path[t], store.owner[t])
      BY <1>1, <1>3, <2>2 DEF Good, Scoped
    <3> QED
      BY <1>2, <1>3, <1>4, <2>2, <3>1, <3>2
  <2> QED
    BY <2>1, <2>2
<1> QED
  BY <1>5, <1>6 DEF Good

\* In an active workspace, the tab shown is one of its own.
LEMMA ShownTab ==
    ASSUME IInv, store.activeSlug # None
    PROVE  /\ Shown(store) \in Tabs /\ store.owner[Shown(store)] = store.activeSlug
           /\ store.activeSlug \in Slugs
BY SlugsAssumption DEF IInv, Good, Typed, Store, Entered, Covered, TabsOf, Shown

\* The tabs that leave their groups take nothing with them that another tab needs.
LEMMA DropKeeps ==
    ASSUME NEW st, NEW rt, NEW sy, Good(st, rt, sy), NEW ts \in SUBSET Tabs
    PROVE  LET dropped == Dropped(st, ts)
           IN /\ Typed(dropped, Disposed(rt, ts)) /\ Known(dropped)
              /\ Owned(dropped, Disposed(rt, ts)) /\ Scoped(dropped, Disposed(rt, ts), sy)
              /\ dropped.made = st.made /\ dropped.groups = st.groups
              /\ dropped.activeTab = st.activeTab /\ dropped.activeSlug = st.activeSlug
              /\ \A t \in Tabs : dropped.owner[t] = IF t \in ts THEN None ELSE st.owner[t]
<1> DEFINE dropped == Dropped(st, ts)
           disposed == Disposed(rt, ts)
<1>1. /\ st \in Store /\ rt \in [Tabs -> Router]
      /\ \A t \in Tabs : RouterOK(rt[t])
      /\ st.path \in [Tabs -> Locations]
  BY DEF Good, Typed, Store, RouterOK, Locations
<1>2. /\ dropped.made = st.made /\ dropped.groups = st.groups
      /\ dropped.activeTab = st.activeTab /\ dropped.activeSlug = st.activeSlug
      /\ dropped.owner = [t \in Tabs |-> IF t \in ts THEN None ELSE st.owner[t]]
      /\ dropped.path = [t \in Tabs |-> IF t \in ts THEN Home ELSE st.path[t]]
  BY <1>1 DEF Dropped, Store
<1>3. dropped \in Store
  BY <1>1, TrailsOf DEF Dropped, Store, NewTrail, Trail
<1>4. ASSUME NEW t \in Tabs
      PROVE  /\ disposed[t] \in Router /\ disposed[t].at \in 1..Len(disposed[t].entries)
             /\ t \in ts => ~disposed[t].live
             /\ t \notin ts => disposed[t] = rt[t]
  <2>1. Location(rt[t]) \in Locations
    BY <1>1, LocationOf
  <2> DEFINE e == <<Location(rt[t])>>
  <2>2. e \in Seq(Locations) /\ Len(e) = 1
    BY <2>1
  <2>3. disposed[t] = IF t \in ts THEN [entries |-> e, at |-> 1, live |-> FALSE] ELSE rt[t]
    BY DEF Disposed
  <2> HIDE DEF e, disposed
  <2>4. CASE t \in ts
    BY <2>2, <2>3, <2>4 DEF Router, Locations
  <2>5. CASE t \notin ts
    BY <1>1, <2>3, <2>5 DEF RouterOK
  <2> QED
    BY <2>4, <2>5
<1>5. disposed \in [Tabs -> Router]
  BY <1>4 DEF Disposed
<1> HIDE DEF dropped, disposed
<1>6. Typed(dropped, disposed) /\ Known(dropped)
  BY <1>2, <1>3, <1>4, <1>5 DEF Typed, Good, Known
<1>7. Owned(dropped, disposed)
  BY <1>2, <1>4 DEF Owned, Good
<1>8. Scoped(dropped, disposed, sy)
  BY <1>2, <1>4 DEF Good, Scoped
<1> QED
  BY <1>2, <1>6, <1>7, <1>8 DEF dropped, disposed

\* Every store that validating may leave is in order.
LEMMA ValidatedKeeps ==
    ASSUME IInv, NEW valid \in SUBSET Slugs, NEW st \in Validated(valid).store
    PROVE  Good(st, Validated(valid).router, stray)
<1> DEFINE gone == {t \in Tabs : store.owner[t] # None /\ store.owner[t] \notin valid}
           left == store.groups \cap valid
           dropped == Dropped(store, gone)
           rt == Disposed(router, gone)
<1>1. Good(store, router, stray) /\ gone \in SUBSET Tabs /\ Validated(valid).router = rt
  BY DEF IInv, Validated
<1>2. PICK next \in IF store.activeSlug \in valid \cup {None} THEN {store.activeSlug}
                    ELSE IF left = {} THEN {None} ELSE left :
         st = [dropped EXCEPT
                 !.groups = left,
                 !.activeTab = [s \in Slugs |-> IF s \in left THEN @[s] ELSE None],
                 !.activeSlug = next]
  BY DEF Validated
<1>3. /\ Typed(dropped, rt) /\ Known(dropped) /\ Owned(dropped, rt)
      /\ Scoped(dropped, rt, stray)
      /\ dropped.groups = store.groups /\ dropped.activeTab = store.activeTab
      /\ \A t \in Tabs : dropped.owner[t] = IF t \in gone THEN None ELSE store.owner[t]
  <2> HIDE DEF gone
  <2> QED
    BY <1>1, DropKeeps
<1>4. /\ store.groups \subseteq Slugs /\ left \subseteq Slugs
      /\ store.activeTab \in [Slugs -> Tabs \cup {None}]
      /\ store.activeSlug \in Slugs \cup {None} /\ dropped \in Store
  BY <1>1, <1>3 DEF Good, Typed, Store
<1>5. next \in left \cup {None} /\ (left = {} <=> next = None)
  BY <1>1, <1>2, <1>4, SlugsAssumption DEF Good, Entered
<1>6. /\ st.made = dropped.made /\ st.groups = left /\ st.owner = dropped.owner
      /\ st.path = dropped.path /\ st.activeSlug = next
      /\ st.activeTab = [s \in Slugs |-> IF s \in left THEN store.activeTab[s] ELSE None]
  <2> HIDE DEF gone, left, dropped
  <2> QED
    BY <1>2, <1>3, <1>4 DEF Store
<1>7. st \in Store
  <2> DEFINE shows == [s \in Slugs |-> IF s \in left THEN dropped.activeTab[s] ELSE None]
  <2>1. shows \in [Slugs -> Tabs \cup {None}]
    BY <1>3, <1>4
  <2>2. st = [dropped EXCEPT !.groups = left, !.activeTab = shows, !.activeSlug = next]
    BY <1>2
  <2> HIDE DEF shows, dropped, left
  <2> QED
    BY <1>4, <1>5, <2>1, <2>2 DEF Store
<1> HIDE DEF gone, dropped, rt
<1>8. Typed(st, rt) /\ Known(st) /\ Scoped(st, rt, stray)
  BY <1>3, <1>6, <1>7 DEF Typed, Known, Scoped
<1>9. Owned(st, rt)
  <2>1. \A t \in Tabs : rt[t].live <=> st.owner[t] # None
    BY <1>3, <1>6 DEF Owned
  <2>2. \A t \in Tabs : st.owner[t] \in left \cup {None}
    BY <1>1, <1>3, <1>6 DEF gone, Good, Owned
  <2> QED
    BY <1>6, <2>1, <2>2 DEF Owned
<1>10. Entered(st)
  BY <1>5, <1>6, SlugsAssumption DEF Entered
<1>11. ASSUME NEW s \in st.groups
       PROVE  Covered(st, s)
  <2>1. s \in left /\ s \in Slugs
    BY <1>4, <1>6
  <2>2. store.activeTab[s] \in Tabs /\ store.owner[store.activeTab[s]] = s
    BY <1>1, <2>1 DEF Good, Covered, TabsOf
  <2>3. store.activeTab[s] \notin gone
    BY <2>1, <2>2 DEF gone
  <2>4. st.activeTab[s] = store.activeTab[s]
    BY <1>6, <2>1
  <2> QED
    BY <1>3, <1>6, <2>2, <2>3, <2>4 DEF Covered, TabsOf
<1> QED
  BY <1>1, <1>8, <1>9, <1>10, <1>11 DEF Good

-----------------------------------------------------------------------------
(* The steps. *)

\* The counter of the bound stays within it.
LEMMA UpsetType ==
    ASSUME IInv, Upset
    PROVE  upsets' \in 0..MaxUpsets
BY BoundsAssumption DEF Upset, IInv, Rest

\* A page pushes a path of its workspace, or another.
LEMMA PushKeeps ==
    ASSUME IInv, NEW p \in Path, Push(p)
    PROVE  IInv'
<1>1. CASE p.slug # store.activeSlug
  BY <1>1, SwitchKeeps DEF Push, IInv, Rest, session
<1>2. CASE p.slug = store.activeSlug
  <2> DEFINE t == Shown(store)
             r == Pushed(router[t], p)
  <2>1. p.slug # None /\ p \in Locations
    BY SlugsAssumption DEF Path, Locations
  <2>2. t \in Tabs /\ store.owner[t] = p.slug
    BY <1>2, <2>1, ShownTab
  <2>3. RouterOK(router[t]) /\ refs[t] \in Trail
    BY <2>2 DEF IInv, Good, Typed, RouterOK, Rest
  <2>4. Moves(t, r, TrailPushed(refs[t])) /\ UNCHANGED <<session, upsets, stray, unseen>>
    BY <1>2 DEF Push
  <2> HIDE DEF t
  <2>5. /\ RouterOK(r) /\ r.live = router[t].live
        /\ \A i \in 1..Len(r.entries) :
              \/ r.entries[i] = p
              \/ \E j \in 1..Len(router[t].entries) : r.entries[i] = router[t].entries[j]
    BY <2>1, <2>3, PushOf
  <2> HIDE DEF r
  <2>6. ASSUME NEW i \in 1..Len(r.entries), t \notin stray
        PROVE  Within(r.entries[i], store.owner[t])
    <3>1. CASE r.entries[i] = p
      BY <2>2, <3>1 DEF Within
    <3>2. ASSUME NEW j \in 1..Len(router[t].entries), r.entries[i] = router[t].entries[j]
          PROVE  Within(r.entries[i], store.owner[t])
      BY <2>1, <2>2, <2>6, <3>2 DEF IInv, Good, Scoped
    <3> QED
      BY <2>5, <3>1, <3>2
  <2>7. TrailPushed(refs[t]) \in Trail
    BY <2>3, TrailsOf
  <2>8. Good(store', router', stray)
    BY <2>2, <2>4, <2>5, <2>6, <2>7, RouterKeeps DEF Moves
  <2> QED
    BY <2>4, <2>7, <2>8 DEF Moves, IInv, Rest, session
<1> QED
  BY <1>1, <1>2

\* The overlay parks the tab shown on "/".
LEMMA TransitionKeeps ==
    ASSUME IInv, PushTransition
    PROVE  IInv'
<1>1. PICK t \in Tabs : Moves(t, Replaced(router[t], Home), refs[t])
  BY DEF PushTransition
<1> DEFINE r == Replaced(router[t], Home)
<1>2. RouterOK(router[t]) /\ refs[t] \in Trail /\ Home \in Locations
  BY DEF IInv, Good, Typed, RouterOK, Rest, Locations
<1>3. /\ RouterOK(r) /\ r.live = router[t].live
      /\ \A i \in 1..Len(r.entries) :
            \/ r.entries[i] = Home
            \/ \E j \in 1..Len(router[t].entries) : r.entries[i] = router[t].entries[j]
  BY <1>2, ReplaceOf
<1> HIDE DEF r
<1>4. \A i \in 1..Len(r.entries) :
         \/ r.entries[i] = Home
         \/ t \notin stray /\ store.owner[t] # None => Within(r.entries[i], store.owner[t])
  BY <1>3 DEF IInv, Good, Scoped
<1>5. Good(store', router', stray)
  BY <1>1, <1>2, <1>3, <1>4, RouterKeeps DEF Moves, r
<1> QED
  BY <1>1, <1>2, <1>5, UpsetType DEF Moves, PushTransition, IInv, Rest, session

\* A pop, by an arrow or a page.
LEMMA PopKeeps ==
    ASSUME IInv, NEW t \in Tabs, NEW back \in BOOLEAN,
           Moves(t, Popped(router[t], back), TrailPopped(refs[t], back)),
           UNCHANGED <<session, upsets, stray, unseen>>
    PROVE  IInv'
<1> DEFINE r == Popped(router[t], back)
<1>1. RouterOK(router[t]) /\ refs[t] \in Trail
  BY DEF IInv, Good, Typed, RouterOK, Rest
<1>2. /\ RouterOK(r) /\ r.live = router[t].live /\ r.entries = router[t].entries
      /\ TrailPopped(refs[t], back) \in Trail
  BY <1>1, PopOf, TrailsOf
<1> HIDE DEF r
<1>3. \A i \in 1..Len(r.entries) :
         t \notin stray /\ store.owner[t] # None => Within(r.entries[i], store.owner[t])
  BY <1>2 DEF IInv, Good, Scoped
<1>4. Good(store', router', stray)
  BY <1>2, <1>3, RouterKeeps DEF Moves, r
<1> QED
  BY <1>2, <1>4 DEF Moves, IInv, Rest, session

\* A push after the tab was hidden goes to its router, unheard, or to the group of
\* its path.
LEMMA LateKeeps ==
    ASSUME IInv, NEW t \in Tabs, NEW page \in Pages, PushLate(t, page)
    PROVE  IInv'
<1> DEFINE s == Location(router[t]).slug
           p == [slug |-> s, page |-> page]
           r == Pushed(router[t], p)
<1>1. RouterOK(router[t])
  BY DEF IInv, Good, Typed, RouterOK
<1>2. /\ Location(router[t]) \in Locations
      /\ \E i \in 1..Len(router[t].entries) : Location(router[t]) = router[t].entries[i]
  BY <1>1, LocationOf
<1>3. s # None /\ s \in Slugs /\ p \in Path /\ p \in Locations
  BY <1>2 DEF PushLate, Locations, Path, Home
<1>4. CASE s # store.activeSlug
  <2>1. SwitchWorkspace(p.slug, p) /\ UNCHANGED unseen
    BY <1>4 DEF PushLate
  <2> HIDE DEF p
  <2> QED
    BY <1>3, <2>1, SwitchKeeps, UpsetType DEF PushLate, IInv, Rest, session
<1>5. CASE s = store.activeSlug
  <2>1. MovesUnseen(t, r)
    BY <1>5 DEF PushLate
  <2>2. t \notin stray /\ store.owner[t] # None => store.owner[t] = s
    BY <1>2, <1>3 DEF IInv, Good, Scoped, Within
  <2>3. p.slug = s
    OBVIOUS
  <2> HIDE DEF p, s
  <2>4. /\ RouterOK(r) /\ r.live = router[t].live
        /\ \A i \in 1..Len(r.entries) :
              \/ r.entries[i] = p
              \/ \E j \in 1..Len(router[t].entries) : r.entries[i] = router[t].entries[j]
    BY <1>1, <1>3, PushOf
  <2> HIDE DEF r
  <2>5. \A i \in 1..Len(r.entries) :
           t \notin stray /\ store.owner[t] # None => Within(r.entries[i], store.owner[t])
    BY <2>2, <2>3, <2>4 DEF IInv, Good, Scoped, Within
  <2>6. Good(store', router', stray)
    BY <2>1, <2>4, <2>5, RouterKeeps DEF MovesUnseen
  <2> QED
    BY <2>1, <2>6, UpsetType DEF PushLate, MovesUnseen, IInv, Rest, session
<1> QED
  BY <1>4, <1>5

\* Opening a tab, from a link or from a notification.
LEMMA OpenKeeps ==
    ASSUME IInv, NEW p \in Path, OpenInNewTab(p) \/ OpenNotified(p)
    PROVE  IInv'
<1>1. CASE OpenInNewTab(p) /\ p.slug # store.activeSlug
  BY <1>1, SwitchKeeps DEF OpenInNewTab, IInv, Rest, session
<1>2. CASE OpenInNewTab(p) /\ p.slug = store.activeSlug
  BY <1>2, OpenTabKeeps DEF OpenInNewTab, IInv, Rest, session
<1>3. CASE OpenNotified(p)
  <2>1. /\ OpenTab(p) /\ stray \subseteq stray'
        /\ p.slug = store.activeSlug \/ Shown(store') \in stray'
    BY <1>3 DEF OpenNotified
  <2>2. /\ Good(store', router', stray')
        /\ refs' \in [Tabs -> Trail] /\ visited' \subseteq Tabs
    BY <2>1, OpenTabKeeps
  <2>3. Shown(store') \in Tabs
    BY <2>1, OpenTabKeeps
  <2> QED
    BY <1>3, <2>2, <2>3, UpsetType DEF OpenNotified, IInv, Rest, session
<1> QED
  BY <1>1, <1>2, <1>3

\* The tab bar: a new tab, another tab, one less.
LEMMA NewTabKeeps ==
    ASSUME IInv, NewTab
    PROVE  IInv'
<1> DEFINE s == store.activeSlug
           p == RootOf(s)
           made == Made(store, s, p)
           t0 == store.made + 1
           new == [made EXCEPT !.activeTab[s] = made.made]
<1>1. /\ s \in Slugs /\ s \in store.groups /\ store \in Store /\ p \in Path /\ p.slug = s
      /\ Almost(store, router, stray, s) /\ store.made < MaxTabs
  BY GoodIsAlmost, SlugsAssumption, PagesAssumption
     DEF NewTab, IInv, Good, Typed, Store, Entered, Path, RootOf
<1>2. /\ made \in Store /\ t0 \in Tabs /\ made.made = t0
      /\ made.groups = store.groups
      /\ made.owner = [store.owner EXCEPT ![t0] = s]
      /\ made.path = [store.path EXCEPT ![t0] = p]
      /\ made.activeTab = store.activeTab /\ made.activeSlug = s
  BY <1>1, MadeOf
<1>3. Commit(new, Routed(router, t0, p)) /\ UNCHANGED <<session, upsets, stray, unseen>>
  BY <1>2 DEF NewTab
<1> HIDE DEF p, made, s
<1>4. /\ new \in Store
      /\ new.made = t0 /\ new.groups = store.groups \cup {s}
      /\ new.owner = [store.owner EXCEPT ![t0] = s]
      /\ new.path = [store.path EXCEPT ![t0] = p] /\ new.activeSlug = s
      /\ new.activeTab = [store.activeTab EXCEPT ![s] = t0]
  BY <1>1, <1>2 DEF Store
<1> HIDE DEF new
<1>5. Good(new, Routed(router, t0, p), stray)
  BY <1>1, <1>4, EnterKeeps
<1>6. Good(store', router', stray) /\ refs' \in [Tabs -> Trail] /\ visited' \subseteq Tabs
  BY <1>3, <1>5, CommitKeeps DEF IInv
<1> QED
  BY <1>3, <1>6 DEF IInv, Rest, session

\* Choosing another tab of the group.
LEMMA SetActiveKeeps ==
    ASSUME IInv, NEW t \in Tabs, SetActiveTab(t)
    PROVE  IInv'
<1> DEFINE s == store.activeSlug
           new == [store EXCEPT !.activeTab[s] = t]
<1>1. /\ s \in Slugs /\ store \in Store /\ t \in TabsOf(store, s)
      /\ Almost(store, router, stray, s)
      /\ Commit(new, router) /\ UNCHANGED <<session, upsets, stray, unseen>>
  BY GoodIsAlmost DEF SetActiveTab, IInv, Good, Typed, Store
<1>2. new.activeSlug = s
  BY <1>1 DEF Store
<1> HIDE DEF s
<1>3. /\ new \in Store
      /\ new.made = store.made /\ new.groups = store.groups /\ new.owner = store.owner
      /\ new.path = store.path /\ new.activeTab = [store.activeTab EXCEPT ![s] = t]
  BY <1>1 DEF Store
<1> HIDE DEF new
<1>4. Good(new, router, stray)
  BY <1>1, <1>2, <1>3, SelectKeeps
<1>5. Good(store', router', stray) /\ refs' \in [Tabs -> Trail] /\ visited' \subseteq Tabs
  BY <1>1, <1>4, CommitKeeps DEF IInv
<1> QED
  BY <1>1, <1>5 DEF IInv, Rest, session

\* The group of the tab closed may have lost the tab it shows: it gets a default
\* tab when it has no other, else shows one of the others.
LEMMA CloseKeeps ==
    ASSUME IInv, NEW t \in Tabs, CloseTab(t)
    PROVE  IInv'
<1> DEFINE s == store.activeSlug
           p == RootOf(s)
           t0 == store.made + 1
           closed == Dropped(store, {t})
           rt == Disposed(router, {t})
           made == Made(closed, s, p)
           madeNew == [made EXCEPT !.activeTab[s] = made.made]
<1>1. /\ s \in Slugs /\ s \in store.groups /\ store \in Store /\ p \in Path /\ p.slug = s
      /\ store.owner[t] = s /\ Good(store, router, stray) /\ {t} \in SUBSET Tabs
  BY SlugsAssumption, PagesAssumption
     DEF CloseTab, IInv, Good, Typed, Store, Entered, Path, RootOf
<1>2. UNCHANGED <<session, upsets, stray, unseen>>
  BY DEF CloseTab
<1>3. /\ Typed(closed, rt) /\ Known(closed) /\ Owned(closed, rt)
      /\ Scoped(closed, rt, stray) /\ closed.made = store.made
      /\ closed.groups = store.groups /\ closed.activeTab = store.activeTab
      /\ closed.activeSlug = s
      /\ \A u \in Tabs : closed.owner[u] = IF u = t THEN None ELSE store.owner[u]
  BY <1>1, DropKeeps
<1> HIDE DEF closed, rt
<1>4. Almost(closed, rt, stray, s) /\ closed \in Store
  <2>1. ASSUME NEW x \in closed.groups \ {s}
        PROVE  Covered(closed, x)
    <3>1. store.activeTab[x] \in Tabs /\ store.owner[store.activeTab[x]] = x
      BY <1>1, <1>3, <2>1 DEF Good, Covered, TabsOf
    <3> QED
      BY <1>1, <1>3, <2>1, <3>1 DEF Covered, TabsOf
  <2> QED
    BY <1>3, <2>1 DEF Almost, Typed
<1>5. CASE store.made < MaxTabs /\ Commit(madeNew, Routed(rt, made.made, p))
  <2>1. /\ made \in Store /\ t0 \in Tabs /\ made.made = t0
        /\ made.groups = store.groups
        /\ made.owner = [closed.owner EXCEPT ![t0] = s]
        /\ made.path = [closed.path EXCEPT ![t0] = p]
        /\ made.activeTab = store.activeTab /\ made.activeSlug = s
    BY <1>1, <1>3, <1>4, <1>5, MadeOf
  <2>2. Commit(madeNew, Routed(rt, t0, p))
    BY <1>5, <2>1
  <2> HIDE DEF made, s, p
  <2>3. /\ madeNew \in Store
        /\ madeNew.made = closed.made + 1 /\ madeNew.groups = closed.groups \cup {s}
        /\ madeNew.owner = [closed.owner EXCEPT ![closed.made + 1] = s]
        /\ madeNew.path = [closed.path EXCEPT ![closed.made + 1] = p]
        /\ madeNew.activeTab = [closed.activeTab EXCEPT ![s] = closed.made + 1]
        /\ madeNew.activeSlug = s
    BY <1>1, <1>3, <2>1 DEF Store
  <2> HIDE DEF madeNew
  <2>4. Good(madeNew, Routed(rt, t0, p), stray)
    BY <1>1, <1>3, <1>4, <1>5, <2>3, EnterKeeps
  <2>5. Good(store', router', stray) /\ refs' \in [Tabs -> Trail] /\ visited' \subseteq Tabs
    BY <2>2, <2>4, CommitKeeps DEF IInv
  <2> QED
    BY <1>2, <2>5 DEF IInv, Rest, session
<1>6. ASSUME NEW next \in TabsOf(store, s) \ {t},
             Commit([closed EXCEPT !.activeTab[s] = next], rt)
      PROVE  IInv'
  <2> DEFINE new == [closed EXCEPT !.activeTab[s] = next]
  <2> HIDE DEF s
  <2>1. next \in Tabs /\ next \in TabsOf(closed, s)
    BY <1>3, <1>6 DEF TabsOf
  <2>2. /\ new \in Store
        /\ new.made = closed.made /\ new.groups = closed.groups /\ new.owner = closed.owner
        /\ new.path = closed.path /\ new.activeSlug = s
        /\ new.activeTab = [closed.activeTab EXCEPT ![s] = next]
    BY <1>1, <1>3, <1>4, <2>1 DEF Store
  <2> HIDE DEF new
  <2>3. Good(new, rt, stray)
    BY <1>1, <1>4, <2>1, <2>2, SelectKeeps
  <2>4. Good(store', router', stray) /\ refs' \in [Tabs -> Trail] /\ visited' \subseteq Tabs
    BY <1>6, <2>3, CommitKeeps DEF IInv, new
  <2> QED
    BY <1>2, <2>4 DEF IInv, Rest, session
<1> QED
  BY <1>5, <1>6 DEF CloseTab, closed, rt

\* The list arrives: what it lacks is dropped, and a workspace is entered if none is
\* active.
LEMMA ListKeeps ==
    ASSUME IInv, ListArrives
    PROVE  IInv'
<1> DEFINE rt == Validated(members).router
<1>1. /\ members \in SUBSET Slugs /\ list' = members
      /\ UNCHANGED <<signedIn, members, upsets, stray, unseen>>
  BY DEF ListArrives, IInv, Rest
<1>2. PICK st \in Validated(members).store :
         IF st.activeSlug = None /\ members # {}
         THEN \E s \in members :
                 /\ st.made < MaxTabs
                 /\ LET made == Made(st, s, RootOf(s))
                    IN Commit([made EXCEPT !.groups = @ \cup {s}, !.activeSlug = s,
                                           !.activeTab[s] = made.made],
                              Routed(rt, made.made, RootOf(s)))
         ELSE Commit(st, rt)
  BY DEF ListArrives
<1>3. Good(st, rt, stray)
  BY <1>1, ValidatedKeeps
<1> HIDE DEF rt
<1>4. CASE Commit(st, rt)
  BY <1>1, <1>3, <1>4, CommitKeeps DEF IInv, Rest
<1>5. ASSUME NEW s \in members, st.made < MaxTabs,
             LET made == Made(st, s, RootOf(s))
             IN Commit([made EXCEPT !.groups = @ \cup {s}, !.activeSlug = s,
                                    !.activeTab[s] = made.made],
                       Routed(rt, made.made, RootOf(s)))
      PROVE  IInv'
  <2> DEFINE p == RootOf(s)
             t0 == st.made + 1
             made == Made(st, s, p)
             new == [made EXCEPT !.groups = @ \cup {s}, !.activeSlug = s,
                                 !.activeTab[s] = made.made]
  <2>1. /\ s \in Slugs /\ p \in Path /\ p.slug = s /\ st \in Store
        /\ Almost(st, rt, stray, s)
    BY <1>1, <1>3, GoodIsAlmost, PagesAssumption DEF Path, RootOf, Good, Typed
  <2>2. /\ made \in Store /\ t0 \in Tabs /\ made.made = t0
        /\ made.groups = st.groups
        /\ made.owner = [st.owner EXCEPT ![t0] = s]
        /\ made.path = [st.path EXCEPT ![t0] = p]
        /\ made.activeTab = st.activeTab /\ made.activeSlug = st.activeSlug
    BY <1>5, <2>1, MadeOf
  <2>3. Commit(new, Routed(rt, t0, p))
    BY <1>5, <2>2
  <2> HIDE DEF made, p
  <2>4. /\ new \in Store
        /\ new.made = t0 /\ new.groups = st.groups \cup {s}
        /\ new.owner = [st.owner EXCEPT ![t0] = s]
        /\ new.path = [st.path EXCEPT ![t0] = p] /\ new.activeSlug = s
        /\ new.activeTab = [st.activeTab EXCEPT ![s] = t0]
    BY <2>1, <2>2 DEF Store
  <2> HIDE DEF new
  <2>5. Good(new, Routed(rt, t0, p), stray)
    BY <1>5, <2>1, <2>4, EnterKeeps
  <2>6. Good(store', router', stray) /\ refs' \in [Tabs -> Trail] /\ visited' \subseteq Tabs
    BY <2>3, <2>5, CommitKeeps DEF IInv
  <2> QED
    BY <1>1, <2>6 DEF IInv, Rest
<1> QED
  BY <1>2, <1>4, <1>5

\* The route layout drops the group it cannot resolve.
LEMMA HealKeeps ==
    ASSUME IInv, Heal
    PROVE  IInv'
<1>1. list \in SUBSET Slugs /\ UNCHANGED <<session, upsets, stray, unseen>>
  BY DEF Heal, IInv, Rest
<1>2. PICK st \in Validated(list).store : Commit(st, Validated(list).router)
  BY DEF Heal
<1>3. Good(st, Validated(list).router, stray)
  BY <1>1, ValidatedKeeps
<1>4. Good(store', router', stray) /\ refs' \in [Tabs -> Trail] /\ visited' \subseteq Tabs
  BY <1>2, <1>3, CommitKeeps DEF IInv
<1> QED
  BY <1>1, <1>4 DEF IInv, Rest, session

\* Signing in and out, and the workspaces of the user.
LEMMA SessionKeeps ==
    ASSUME IInv, MembersChange \/ Login \/ Logout
    PROVE  IInv'
<1>1. CASE MembersChange
  <2>1. members' \subseteq Slugs
    BY <1>1 DEF MembersChange, IInv, Rest
  <2> QED
    BY <1>1, <2>1, UpsetType DEF MembersChange, IInv, Rest
<1>2. CASE Login
  <2>1. Shown(store) # None => Shown(store) \in Tabs
    BY ShownTab DEF Shown
  <2>2. visited' \subseteq Tabs /\ refs' \in [Tabs -> Trail]
    BY <1>2, <2>1, TrailsOf DEF Login, IInv, Rest, NewTrail, Trail
  <2> QED
    BY <1>2, <2>2 DEF Login, IInv, Rest
<1>3. CASE Logout
  <2> DEFINE st == EmptyStore(store.made)
             rt == Disposed(router, Tabs)
  <2>1. /\ st \in Store /\ st.groups = {} /\ st.activeSlug = None
        /\ \A t \in Tabs : st.owner[t] = None
    BY TrailsOf DEF EmptyStore, Store, IInv, Good, Typed, NewTrail, Trail
  <2>2. Typed(Dropped(store, Tabs), rt) /\ Owned(Dropped(store, Tabs), rt)
        /\ \A t \in Tabs : Dropped(store, Tabs).owner[t] = None
    BY DropKeeps DEF IInv
  <2> HIDE DEF st, rt
  <2>3. Good(st, rt, stray)
    BY <2>1, <2>2 DEF Good, Typed, Known, Owned, Scoped, Entered
  <2> QED
    BY <1>3, <2>3, UpsetType DEF Logout, IInv, Rest, st, rt
<1> QED
  BY <1>1, <1>2, <1>3

\* A relaunch rebuilds from the persisted paths the groups that have a tab on a path
\* of their own.
LEMMA RelaunchKeeps ==
    ASSUME IInv, Relaunch
    PROVE  IInv'
<1> DEFINE kept == {t \in Tabs : Kept(t)}
           groups == {store.owner[t] : t \in kept}
           path == [t \in Tabs |-> IF t \in kept THEN Normalised(store.path[t]) ELSE Home]
           owner == [t \in Tabs |-> IF t \in kept THEN store.owner[t] ELSE None]
           owned(s) == {t \in kept : store.owner[t] = s}
           rt == [t \in Tabs |-> IF t \in kept THEN NewRouter(path[t]) ELSE NoRouter]
           nexts == IF store.activeSlug \in groups THEN {store.activeSlug}
                    ELSE IF groups = {} THEN {None} ELSE groups
           rebuilt(active, next) ==
               [made |-> store.made, groups |-> groups, owner |-> owner, path |-> path,
                trail |-> [t \in Tabs |-> NewTrail],
                activeTab |-> active, activeSlug |-> next]
<1>1. PICK active \in [Slugs -> Tabs \cup {None}], next \in nexts :
         /\ \A s \in Slugs :
               active[s] \in IF owned(s) = {} THEN {None}
                             ELSE IF store.activeTab[s] \in owned(s)
                                  THEN {store.activeTab[s]} ELSE owned(s)
         /\ store' = rebuilt(active, next)
         /\ visited' = IF signedIn /\ next # None THEN {active[next]} ELSE {}
  BY DEF Relaunch
<1>2. /\ router' = rt /\ refs' = [t \in Tabs |-> NewTrail] /\ list' = Unfetched
      /\ stray' = {} /\ unseen' = {} /\ UNCHANGED <<signedIn, members>> /\ Upset
  BY DEF Relaunch
<1>3. /\ store \in Store /\ store.made \in 0..MaxTabs
      /\ store.owner \in [Tabs -> Slugs \cup {None}] /\ store.path \in [Tabs -> Locations]
      /\ Known(store)
  BY DEF IInv, Good, Typed, Store, Locations
<1>4. ASSUME NEW t \in kept
      PROVE  /\ t \in Tabs /\ store.owner[t] \in Slugs
             /\ path[t] \in Path /\ path[t].slug = store.owner[t]
             /\ owner[t] = store.owner[t] /\ owner[t] \in groups
             /\ rt[t] = NewRouter(path[t])
  <2>1. t \in Tabs /\ store.owner[t] # None /\ store.path[t].slug = store.owner[t]
    BY DEF Kept
  <2>2. store.owner[t] \in Slugs /\ store.path[t] \in Path
    BY <1>3, <2>1 DEF Locations, Home
  <2>3. Normalised(store.path[t]) \in Path
        /\ Normalised(store.path[t]).slug = store.owner[t]
    BY <2>1, <2>2, PagesAssumption DEF Normalised, RootOf, Path
  <2> QED
    BY <2>1, <2>2, <2>3
<1>5. ASSUME NEW t \in Tabs, t \notin kept
      PROVE  path[t] = Home /\ owner[t] = None /\ rt[t] = NoRouter
  BY <1>5
<1>6. groups \subseteq Slugs /\ path \in [Tabs -> Locations]
      /\ owner \in [Tabs -> Slugs \cup {None}]
  BY <1>4, <1>5 DEF Locations
<1>7. /\ NoRouter \in Router /\ NoRouter.at \in 1..Len(NoRouter.entries) /\ ~NoRouter.live
      /\ \A p \in Locations :
            /\ NewRouter(p) \in Router /\ NewRouter(p).live
            /\ NewRouter(p).at \in 1..Len(NewRouter(p).entries)
            /\ \A i \in 1..Len(NewRouter(p).entries) : NewRouter(p).entries[i] = p
  BY DEF NoRouter, NewRouter, Router, Locations
<1>8. next \in groups \cup {None} /\ (next = None <=> groups = {})
  BY <1>6, SlugsAssumption
<1>9. ASSUME NEW s \in groups
      PROVE  active[s] \in kept /\ store.owner[active[s]] = s /\ s \in Slugs
  <2>1. s \in Slugs /\ owned(s) # {}
    BY <1>6, <1>9
  <2> QED
    BY <1>1, <2>1
<1> HIDE DEF kept, groups, path, owner, rt, nexts
<1>10. /\ store' \in Store /\ store'.made = store.made /\ store'.groups = groups
       /\ store'.owner = owner /\ store'.path = path /\ store'.activeTab = active
       /\ store'.activeSlug = next
  BY <1>1, <1>3, <1>6, <1>8, TrailsOf DEF Store, Locations, NewTrail, Trail
<1>11. rt \in [Tabs -> Router] /\ \A t \in Tabs : rt[t].at \in 1..Len(rt[t].entries)
  <2>1. \A t \in Tabs : rt[t] \in Router /\ rt[t].at \in 1..Len(rt[t].entries)
    BY <1>4, <1>5, <1>7 DEF Locations
  <2> QED
    BY <2>1 DEF rt
<1>12. Typed(store', router') /\ Known(store')
  BY <1>2, <1>3, <1>4, <1>5, <1>10, <1>11 DEF Typed, Known
<1>13. Owned(store', router')
  BY <1>2, <1>4, <1>5, <1>7, <1>10, SlugsAssumption DEF Owned, Locations
<1>14. Scoped(store', router', stray')
  BY <1>2, <1>4, <1>5, <1>7, <1>10 DEF Scoped, Within, Locations
<1>15. Entered(store') /\ \A s \in store'.groups : Covered(store', s)
  BY <1>4, <1>8, <1>9, <1>10 DEF Entered, Covered, TabsOf
<1>16. visited' \subseteq Tabs /\ refs' \in [Tabs -> Trail]
  BY <1>1, <1>2, <1>4, <1>8, <1>9, TrailsOf DEF NewTrail, Trail
<1> QED
  BY <1>2, <1>12, <1>13, <1>14, <1>15, <1>16, UpsetType DEF IInv, Good, Rest

-----------------------------------------------------------------------------
(* The theorems. *)

\* The empty store is in order.
LEMMA InitKeeps ==
    ASSUME Init
    PROVE  IInv
<1>1. /\ store \in Store /\ store.groups = {} /\ store.activeSlug = None
      /\ \A t \in Tabs : store.owner[t] = None
  BY BoundsAssumption, TrailsOf DEF Init, EmptyStore, Store, NewTrail, Trail
<1>2. /\ router \in [Tabs -> Router]
      /\ \A t \in Tabs : router[t].at \in 1..Len(router[t].entries) /\ ~router[t].live
  <2>1. NoRouter \in Router /\ NoRouter.at \in 1..Len(NoRouter.entries) /\ ~NoRouter.live
    BY DEF NoRouter, Router
  <2> QED
    BY <2>1 DEF Init
<1>3. Good(store, router, stray)
  BY <1>1, <1>2 DEF Good, Typed, Known, Owned, Scoped, Entered
<1>4. refs \in [Tabs -> Trail] /\ upsets \in 0..MaxUpsets
  BY BoundsAssumption DEF Init, NewTrail, Trail
<1>5. /\ signedIn \in BOOLEAN /\ members \subseteq Slugs /\ list = Unfetched
      /\ visited \subseteq Tabs /\ stray \subseteq Tabs /\ unseen \subseteq Tabs
  BY DEF Init
<1> QED
  BY <1>3, <1>4, <1>5 DEF IInv, Rest

\* So is every store a step leaves.
LEMMA StepKeeps ==
    ASSUME IInv, [Next]_vars
    PROVE  IInv'
<1>1. CASE UNCHANGED vars
  BY <1>1 DEF vars, session, IInv, Rest
<1>2. ASSUME NEW p \in Path, Push(p) \/ OpenInNewTab(p) \/ OpenNotified(p)
      PROVE  IInv'
  BY <1>2, PushKeeps, OpenKeeps
<1>3. CASE PushTransition
  BY <1>3, TransitionKeeps
<1>4. CASE GoBack \/ GoForward \/ PageBack
  <2>1. /\ UNCHANGED <<session, upsets, stray, unseen>>
        /\ \E t \in Tabs, back \in BOOLEAN :
              Moves(t, Popped(router[t], back), TrailPopped(refs[t], back))
    BY <1>4 DEF GoBack, GoForward, PageBack
  <2> QED
    BY <2>1, PopKeeps
<1>5. ASSUME NEW t \in Tabs, NEW page \in Pages, PushLate(t, page)
      PROVE  IInv'
  BY <1>5, LateKeeps
<1>6. CASE NewTab
  BY <1>6, NewTabKeeps
<1>7. ASSUME NEW t \in Tabs, SetActiveTab(t) \/ CloseTab(t)
      PROVE  IInv'
  BY <1>7, SetActiveKeeps, CloseKeeps
<1>8. CASE ListArrives \/ Heal
  BY <1>8, ListKeeps, HealKeeps
<1>9. CASE MembersChange \/ Login \/ Logout
  BY <1>9, SessionKeeps
<1>10. CASE Relaunch
  BY <1>10, RelaunchKeeps
<1> QED
  BY <1>1, <1>2, <1>3, <1>4, <1>5, <1>6, <1>7, <1>8, <1>9, <1>10 DEF Next

\* The invariant of the proofs holds in every state.
THEOREM InvariantAlways == Spec => []IInv
BY InitKeeps, StepKeeps, PTL DEF Spec

\* Every variable of the tab store keeps its type (stores/tab-store.ts).
THEOREM TypesAlways == Spec => []TypeOK
<1>1. IInv => TypeOK
  BY DEF IInv, Rest, Good, Typed, TypeOK
<1> QED
  BY <1>1, InvariantAlways, PTL

\* Every group has tabs and shows one of them, and exactly the routers of the tabs
\* in a group are alive, whatever is closed, validated, reset or merged.
THEOREM GroupsAlways == Spec => []GroupsValid
<1>1. IInv => GroupsValid
  BY DEF IInv, Good, Owned, Entered, Covered, GroupsValid
<1> QED
  BY <1>1, InvariantAlways, PTL

\* No tab but those a notification opened shows a path of another workspace, however
\* late a page pushes (platform/navigation.tsx).
THEOREM ScopeAlways == Spec => []ScopedTabs
<1>1. ASSUME IInv, NEW t \in Tabs \ stray, store.owner[t] # None
      PROVE  /\ Location(router[t]).slug \in {store.owner[t], None}
             /\ store.path[t].slug \in {store.owner[t], None}
  <2>1. RouterOK(router[t])
    BY <1>1 DEF IInv, Good, Typed, RouterOK
  <2> QED
    BY <1>1, <2>1, LocationOf DEF IInv, Good, Scoped, Within
<1>2. IInv => ScopedTabs
  BY <1>1 DEF ScopedTabs
<1> QED
  BY <1>2, InvariantAlways, PTL


-----------------------------------------------------------------------------
(* The buttons of the title bar, and what a signed-in user sees. *)

\* A trail is no longer, on either side, than the history of the router it counts.
Follows(k, r) == k.i < k.n /\ k.i < r.at /\ k.n - k.i <= Len(r.entries) - r.at + 1

\* What the hook and the store know of a tab's history, in a group and unless its
\* router moved while nobody listened.
Followed ==
    \A t \in Tabs \ unseen : store.owner[t] # None =>
        Follows(refs[t], router[t]) /\ Follows(store.trail[t], router[t])

\* No hook has counted anything for a tab that was not made.
Unmade == \A t \in Tabs : t > store.made => refs[t] = NewTrail

\* A list that has workspaces has one that has a group.
Landed == list \notin {Unfetched, {}} => store.groups \cap list # {}

\* In the store st with the routers rt, a tab is as it was, new, or in no group.
Carried(st, rt) ==
    /\ st \in Store /\ st.made >= store.made
    /\ \A t \in Tabs : st.owner[t] # None =>
         \/ store.owner[t] # None /\ rt[t] = router[t] /\ st.trail[t] = store.trail[t]
         \/ t > store.made /\ rt[t].at = 1 /\ st.trail[t] = NewTrail

\* A change that React commits, of a store that still has the groups gs.
Carries(gs) ==
    \E st, rt : Commit(st, rt) /\ Carried(st, rt) /\ gs \subseteq st.groups

\* A push makes the trail and the router's history one longer than where they stood.
LEMMA PushFollows ==
    ASSUME NEW r, RouterOK(r), NEW p \in Locations, NEW k \in Trail, Follows(k, r)
    PROVE  Follows(TrailPushed(k), Pushed(r, p))
<1>1. r.entries \in Seq(Locations) /\ r.at \in 1..Len(r.entries)
  BY DEF RouterOK, Router, Locations
<1>2. /\ Pushed(r, p).entries = Append(SubSeq(r.entries, 1, r.at), p)
      /\ Pushed(r, p).at = r.at + 1
  BY DEF Pushed, RouterOK, Router
<1>3. SubSeq(r.entries, 1, r.at) \in Seq(Locations) /\ Len(SubSeq(r.entries, 1, r.at)) = r.at
  BY <1>1
<1>4. Len(Pushed(r, p).entries) = r.at + 1
  BY <1>1, <1>2, <1>3
<1>5. TrailPushed(k).i = k.i + 1 /\ TrailPushed(k).n = k.i + 2 /\ k.i \in Nat
  BY DEF TrailPushed, Trail
<1>6. r.at \in Nat /\ k.i < r.at
  BY <1>1 DEF Follows
<1>7. Pushed(r, p).at = r.at + 1
  BY <1>2
<1> DEFINE q == Pushed(r, p)
           m == TrailPushed(k)
<1> HIDE DEF q, m
<1>8. q.at = r.at + 1 /\ Len(q.entries) = r.at + 1 /\ m.i = k.i + 1 /\ m.n = k.i + 2
  BY <1>4, <1>5, <1>7 DEF q, m
<1>a. ASSUME NEW i \in Nat, NEW a \in Nat, i < a
      PROVE  i + 1 < i + 2 /\ i + 1 < a + 1 /\ (i + 2) - (i + 1) <= (a + 1) - (a + 1) + 1
  BY <1>a
<1>9. m.i < m.n /\ m.i < q.at /\ m.n - m.i <= Len(q.entries) - q.at + 1
  BY <1>5, <1>6, <1>8, <1>a
<1> QED
  BY <1>9 DEF Follows, q, m

\* A pop that both clamp, or only the router does, keeps the trail within.
LEMMA PopFollows ==
    ASSUME NEW r, RouterOK(r), NEW back \in BOOLEAN, NEW k \in Trail, Follows(k, r)
    PROVE  Follows(TrailPopped(k, back), Popped(r, back))
<1>1. /\ Popped(r, back).entries = r.entries
      /\ Popped(r, back).at = IF back THEN (IF r.at = 1 THEN 1 ELSE r.at - 1)
                              ELSE (IF r.at = Len(r.entries) THEN r.at ELSE r.at + 1)
  BY DEF Popped, RouterOK, Router
<1>2. /\ TrailPopped(k, back).n = k.n
      /\ TrailPopped(k, back).i = IF back THEN (IF k.i = 0 THEN 0 ELSE k.i - 1)
                                  ELSE (IF k.i + 1 < k.n THEN k.i + 1 ELSE k.n - 1)
  BY DEF TrailPopped, Trail
<1>3. k.i \in Nat /\ k.n \in Nat /\ Len(r.entries) \in Nat /\ r.at \in 1..Len(r.entries)
  BY DEF Trail, RouterOK, Router
<1>4. k.i < k.n /\ k.i < r.at /\ k.n - k.i <= Len(r.entries) - r.at + 1
  BY DEF Follows
<1> DEFINE q == Popped(r, back)
           m == TrailPopped(k, back)
<1> HIDE DEF q, m
<1>7. SUFFICES m.i < m.n /\ m.i < q.at /\ m.n - m.i <= Len(q.entries) - q.at + 1
  BY <1>7 DEF Follows, q, m
<1>8. ASSUME NEW i \in Nat, NEW n \in Nat, NEW a \in Nat, NEW l \in Nat,
             i < n, i < a, n - i <= l - a + 1
      PROVE  /\ i - 1 < n /\ i - 1 < a - 1 /\ n - (i - 1) <= l - (a - 1) + 1
             /\ i + 1 < a + 1 /\ n - (i + 1) <= l - (a + 1) + 1
             /\ n = i + 1 /\ a < l =>
                   n - 1 < n /\ n - 1 < a + 1 /\ n - (n - 1) <= l - (a + 1) + 1
  BY <1>8
<1>9. r.at \in Nat /\ (r.at # Len(r.entries) => r.at < Len(r.entries))
  BY <1>3
<1>5. CASE back
  <2>1. /\ q.at = IF r.at = 1 THEN 1 ELSE r.at - 1
        /\ m.i = IF k.i = 0 THEN 0 ELSE k.i - 1
        /\ m.n = k.n /\ q.entries = r.entries
    BY <1>1, <1>2, <1>5 DEF q, m
  <2>2. CASE k.i = 0 /\ r.at = 1
    <3>1. m.i = 0 /\ q.at = 1 /\ m.n = k.n /\ Len(q.entries) = Len(r.entries)
      BY <2>1, <2>2
    <3> QED
      BY <1>3, <1>4, <2>2, <3>1
  <2>4. CASE k.i = 0 /\ r.at # 1
    <3>1. m.i = 0 /\ q.at = r.at - 1 /\ m.n = k.n /\ Len(q.entries) = Len(r.entries)
      BY <2>1, <2>4
    <3> QED
      BY <1>3, <1>4, <2>4, <3>1
  <2>5. CASE k.i # 0
    <3>1. m.i = k.i - 1 /\ q.at = r.at - 1 /\ m.n = k.n /\ Len(q.entries) = Len(r.entries)
      BY <1>3, <1>4, <2>1, <2>5
    <3> QED
      BY <1>3, <1>4, <1>8, <1>9, <2>5, <3>1
  <2> QED
    BY <2>2, <2>4, <2>5
<1>6. CASE ~ back
  <2>1. /\ q.at = IF r.at = Len(r.entries) THEN r.at ELSE r.at + 1
        /\ m.i = IF k.i + 1 < k.n THEN k.i + 1 ELSE k.n - 1
        /\ m.n = k.n /\ q.entries = r.entries
    BY <1>1, <1>2, <1>6 DEF q, m
  <2>2. CASE r.at = Len(r.entries)
    <3>1. k.n = k.i + 1
      BY <1>3, <1>4, <2>2
    <3>2. m.i = k.n - 1 /\ q.at = r.at /\ m.n = k.n /\ Len(q.entries) = Len(r.entries)
      BY <1>3, <2>1, <2>2, <3>1
    <3> QED
      BY <1>3, <1>4, <2>2, <3>1, <3>2
  <2>3. CASE r.at # Len(r.entries) /\ k.i + 1 < k.n
    <3>1. m.i = k.i + 1 /\ q.at = r.at + 1 /\ m.n = k.n /\ Len(q.entries) = Len(r.entries)
      BY <2>1, <2>3
    <3> QED
      BY <1>3, <1>4, <1>8, <1>9, <2>3, <3>1
  <2>4. CASE r.at # Len(r.entries) /\ ~(k.i + 1 < k.n)
    <3>1. m.i = k.n - 1 /\ q.at = r.at + 1 /\ m.n = k.n /\ Len(q.entries) = Len(r.entries)
      BY <2>1, <2>4
    <3>2. k.n = k.i + 1
      BY <1>3, <1>4, <2>4
    <3> QED
      BY <1>3, <1>4, <1>8, <1>9, <2>4, <3>1, <3>2
  <2> QED
    BY <2>2, <2>3, <2>4
<1> QED
  BY <1>5, <1>6

\* A tab that just got its router has nothing to go back or forward to.
LEMMA NewFollows ==
    ASSUME NEW r, RouterOK(r)
    PROVE  Follows(NewTrail, r)
BY DEF Follows, NewTrail, RouterOK, Router

\* A commit copies a path at most, and starts the hooks anew when it switches.
LEMMA CommitFields ==
    ASSUME NEW st \in Store, NEW rt, Commit(st, rt)
    PROVE  /\ store'.made = st.made /\ store'.groups = st.groups
           /\ store'.owner = st.owner /\ store'.trail = st.trail /\ router' = rt
           /\ refs' = refs \/ refs' = [t \in Tabs |-> NewTrail]
<1> DEFINE shown == Shown(st)
           copied == [st EXCEPT !.path[shown] = Location(rt[shown])]
<1>1. store' \in {st, copied} /\ router' = rt
      /\ (refs' = refs \/ refs' = [t \in Tabs |-> NewTrail])
  BY DEF Commit
<1>2. /\ copied.made = st.made /\ copied.groups = st.groups
      /\ copied.owner = st.owner /\ copied.trail = st.trail
  <2> HIDE DEF shown
  <2> QED
    BY DEF Store
<1> HIDE DEF copied
<1> QED
  BY <1>1, <1>2

\* After a commit of a carried store, the trails follow again.
LEMMA CarriesFollow ==
    ASSUME IInv, IInv', Followed, Unmade, NEW gs, Carries(gs), UNCHANGED unseen
    PROVE  Followed' /\ Unmade' /\ gs \subseteq store'.groups
<1>1. PICK st, rt : Commit(st, rt) /\ Carried(st, rt) /\ gs \subseteq st.groups
  BY DEF Carries
<1>2. /\ store'.made = st.made /\ store'.groups = st.groups
      /\ store'.owner = st.owner /\ store'.trail = st.trail /\ router' = rt
      /\ refs' = refs \/ refs' = [t \in Tabs |-> NewTrail]
      /\ st.made \in Nat /\ store.made \in Nat /\ st.made >= store.made
  BY <1>1, CommitFields DEF Carried, Store, IInv, Good, Typed
<1>3. ASSUME NEW t \in Tabs
      PROVE  Follows(NewTrail, router'[t]) /\ refs'[t] \in {refs[t], NewTrail}
  <2>1. RouterOK(router'[t])
    BY DEF IInv, Good, Typed, RouterOK
  <2> QED
    BY <1>2, <2>1, NewFollows
<1>4. Unmade'
  BY <1>2, <1>3 DEF Unmade, Tabs
<1>5. ASSUME NEW t \in Tabs \ unseen, st.owner[t] # None
      PROVE  Follows(refs'[t], router'[t]) /\ Follows(st.trail[t], router'[t])
  <2>1. CASE store.owner[t] # None /\ rt[t] = router[t] /\ st.trail[t] = store.trail[t]
    BY <1>2, <1>3, <2>1 DEF Followed
  <2>2. CASE t > store.made /\ st.trail[t] = NewTrail
    <3>1. refs'[t] = NewTrail
      BY <1>3, <2>2 DEF Unmade
    <3> QED
      BY <1>3, <2>2, <3>1
  <2> QED
    BY <1>1, <1>5, <2>1, <2>2 DEF Carried
<1> QED
  BY <1>1, <1>2, <1>4, <1>5 DEF Followed

\* A tab made takes a trail of its own.
LEMMA MadeTrail ==
    ASSUME NEW st \in Store, NEW s \in Slugs, NEW p \in Path
    PROVE  Made(st, s, p).trail = [st.trail EXCEPT ![st.made + 1] = NewTrail]
BY DEF Made, Store

\* A store that makes one tab more carries what it carried.
LEMMA CarriedMade ==
    ASSUME IInv, NEW st, NEW rt, Carried(st, rt), NEW s, NEW p, NEW new \in Store,
           new.made = st.made + 1,
           new.owner = [st.owner EXCEPT ![st.made + 1] = s],
           new.trail = [st.trail EXCEPT ![st.made + 1] = NewTrail],
           NEW rt2, rt2 = Routed(rt, st.made + 1, p), rt \in [Tabs -> Router]
    PROVE  Carried(new, rt2)
<1>1. /\ st.made \in Nat /\ store.made \in Nat /\ st.made >= store.made
      /\ st.owner \in [Tabs -> Slugs \cup {None}] /\ st.trail \in [Tabs -> Trail]
  BY DEF Carried, Store, IInv, Good, Typed
<1>2. ASSUME NEW t \in Tabs, new.owner[t] # None
      PROVE  \/ store.owner[t] # None /\ rt2[t] = router[t] /\ new.trail[t] = store.trail[t]
             \/ t > store.made /\ rt2[t].at = 1 /\ new.trail[t] = NewTrail
  <2>1. CASE t = st.made + 1
    <3>1. rt2[t] = NewRouter(p)
      BY <2>1 DEF Routed
    <3>2. rt2[t].at = 1
      BY <3>1 DEF NewRouter
    <3>3. t > store.made /\ new.trail[t] = NewTrail
      BY <1>1, <2>1
    <3> QED
      BY <3>2, <3>3
  <2>2. CASE t # st.made + 1
    <3>1. rt2[t] = rt[t] /\ new.trail[t] = st.trail[t] /\ new.owner[t] = st.owner[t]
      BY <1>1, <2>2 DEF Routed
    <3> QED
      BY <1>2, <3>1 DEF Carried
  <2> QED
    BY <2>1, <2>2
<1> QED
  BY <1>1, <1>2 DEF Carried

\* So does one with the same tabs.
LEMMA CarriedSame ==
    ASSUME IInv, NEW st, NEW rt, Carried(st, rt), NEW new \in Store,
           new.made = st.made, new.owner = st.owner, new.trail = st.trail
    PROVE  Carried(new, rt)
BY DEF Carried

\* The store carries itself.
LEMMA CarriedNow ==
    ASSUME IInv
    PROVE  Carried(store, router)
BY DEF Carried, IInv, Good, Typed, Store

\* The tabs that leave their groups are in none.
LEMMA CarriedDrop ==
    ASSUME IInv, NEW ts \in SUBSET Tabs
    PROVE  /\ Carried(Dropped(store, ts), Disposed(router, ts))
           /\ Disposed(router, ts) \in [Tabs -> Router]
<1> DEFINE st == Dropped(store, ts)
           rt == Disposed(router, ts)
<1>1. /\ Typed(st, rt) /\ st.made = store.made
      /\ \A t \in Tabs : st.owner[t] = IF t \in ts THEN None ELSE store.owner[t]
  BY DropKeeps DEF IInv
<1>2. st.trail = [t \in Tabs |-> IF t \in ts THEN NewTrail ELSE store.trail[t]]
  BY DEF Dropped, IInv, Good, Typed, Store
<1>3. \A t \in Tabs : t \notin ts => rt[t] = router[t]
  BY DEF Disposed
<1>4. store.made \in Nat
  BY DEF IInv, Good, Typed, Store
<1> HIDE DEF st, rt
<1> QED
  BY <1>1, <1>2, <1>3, <1>4 DEF Carried, Typed, st, rt

\* Switching carries the tabs, and every group.
LEMMA CarriesSwitch ==
    ASSUME IInv, NEW p \in Path, SwitchWorkspace(p.slug, p)
    PROVE  Carries(store.groups)
<1> DEFINE s == p.slug
<1>1. /\ s \in Slugs /\ store \in Store /\ Carried(store, router)
      /\ router \in [Tabs -> Router]
  BY CarriedNow DEF Path, IInv, Good, Typed
<1>2. ASSUME NEW t \in Matches(store, s, p),
             Commit([store EXCEPT !.activeSlug = s, !.activeTab[s] = t], router)
      PROVE  Carries(store.groups)
  <2> DEFINE new == [store EXCEPT !.activeSlug = s, !.activeTab[s] = t]
  <2>1. t \in Tabs
    BY <1>2 DEF Matches, TabsOf
  <2> HIDE DEF s
  <2>2. /\ new \in Store /\ new.made = store.made /\ new.groups = store.groups
        /\ new.owner = store.owner /\ new.trail = store.trail
    BY <1>1, <2>1 DEF Store
  <2>3. Commit(new, router)
    BY <1>2
  <2> HIDE DEF new
  <2>4. Carried(new, router)
    BY <1>1, <2>2, CarriedSame
  <2> QED
    BY <2>2, <2>3, <2>4 DEF Carries
<1>3. ASSUME store.made < MaxTabs,
             LET made == Made(store, s, p)
             IN Commit([made EXCEPT !.groups = @ \cup {s}, !.activeSlug = s,
                                    !.activeTab[s] = made.made],
                       Routed(router, made.made, p))
      PROVE  Carries(store.groups)
  <2> DEFINE made == Made(store, s, p)
             t0 == store.made + 1
             new == [made EXCEPT !.groups = @ \cup {s}, !.activeSlug = s,
                                 !.activeTab[s] = made.made]
             rt == Routed(router, t0, p)
  <2>1. /\ made \in Store /\ t0 \in Tabs /\ made.made = t0
        /\ made.groups = store.groups
        /\ made.owner = [store.owner EXCEPT ![t0] = s]
        /\ made.path = [store.path EXCEPT ![t0] = p]
        /\ made.activeTab = store.activeTab /\ made.activeSlug = store.activeSlug
    BY <1>1, <1>3, MadeOf
  <2>2. made.trail = [store.trail EXCEPT ![t0] = NewTrail]
    BY <1>1, MadeTrail
  <2>3. Commit(new, rt)
    BY <1>3, <2>1
  <2> HIDE DEF made, s
  <2>4. /\ new \in Store /\ new.made = t0 /\ store.groups \subseteq new.groups
        /\ new.owner = [store.owner EXCEPT ![t0] = s]
        /\ new.trail = [store.trail EXCEPT ![t0] = NewTrail]
    BY <1>1, <2>1, <2>2 DEF Store
  <2> HIDE DEF new
  <2>5. Carried(new, rt)
    BY <1>1, <2>4, CarriedMade
  <2> HIDE DEF rt
  <2> QED
    BY <2>3, <2>4, <2>5 DEF Carries
<1> QED
  BY <1>2, <1>3 DEF SwitchWorkspace

\* So does choosing a tab of the active group, and making one in it.
LEMMA CarriesSelect ==
    ASSUME IInv, NEW s \in Slugs, NEW t \in Tabs,
           Commit([store EXCEPT !.activeTab[s] = t], router)
    PROVE  Carries(store.groups)
<1> DEFINE new == [store EXCEPT !.activeTab[s] = t]
<1>1. store \in Store /\ Carried(store, router)
  BY CarriedNow DEF IInv, Good, Typed
<1>2. /\ new \in Store /\ new.made = store.made /\ new.groups = store.groups
      /\ new.owner = store.owner /\ new.trail = store.trail
  BY <1>1 DEF Store
<1> HIDE DEF new
<1>3. Carried(new, router)
  BY <1>1, <1>2, CarriedSame
<1> QED
  BY <1>2, <1>3 DEF Carries, new

\* So is one that makes a tab in a group and shows it.
LEMMA CarriesMake ==
    ASSUME IInv, NEW st \in Store, NEW rt \in [Tabs -> Router], Carried(st, rt),
           NEW s \in Slugs, NEW p \in Path, st.made < MaxTabs, st.groups = store.groups,
           LET made == Made(st, s, p)
           IN Commit([made EXCEPT !.activeTab[s] = made.made], Routed(rt, made.made, p))
    PROVE  Carries(store.groups)
<1> DEFINE made == Made(st, s, p)
           t0 == st.made + 1
           new == [made EXCEPT !.activeTab[s] = made.made]
           rt2 == Routed(rt, t0, p)
<1>1. /\ made \in Store /\ t0 \in Tabs /\ made.made = t0
      /\ made.groups = st.groups
      /\ made.owner = [st.owner EXCEPT ![t0] = s]
      /\ made.path = [st.path EXCEPT ![t0] = p]
      /\ made.activeTab = st.activeTab /\ made.activeSlug = st.activeSlug
  BY MadeOf
<1>2. made.trail = [st.trail EXCEPT ![t0] = NewTrail]
  BY MadeTrail
<1>3. Commit(new, rt2)
  BY <1>1
<1> HIDE DEF made
<1>4. /\ new \in Store /\ new.made = t0 /\ new.groups = st.groups
      /\ new.owner = [st.owner EXCEPT ![t0] = s]
      /\ new.trail = [st.trail EXCEPT ![t0] = NewTrail]
  BY <1>1, <1>2 DEF Store
<1> HIDE DEF new
<1>5. Carried(new, rt2)
  BY <1>4, CarriedMade
<1> HIDE DEF rt2
<1> QED
  BY <1>3, <1>4, <1>5 DEF Carries

\* Opening a path in the active group.
LEMMA CarriesOpen ==
    ASSUME IInv, NEW p \in Path, OpenTab(p)
    PROVE  Carries(store.groups)
<1> DEFINE s == store.activeSlug
<1>1. s \in Slugs /\ store \in Store /\ Carried(store, router) /\ router \in [Tabs -> Router]
  BY CarriedNow DEF OpenTab, IInv, Good, Typed, Store
<1>2. ASSUME NEW t \in Matches(store, s, p), Commit([store EXCEPT !.activeTab[s] = t], router)
      PROVE  Carries(store.groups)
  <2>1. t \in Tabs
    BY <1>2 DEF Matches, TabsOf
  <2> HIDE DEF s
  <2> QED
    BY <1>1, <1>2, <2>1, CarriesSelect
<1>3. ASSUME store.made < MaxTabs,
             LET made == Made(store, s, p)
             IN Commit([made EXCEPT !.activeTab[s] = made.made],
                       Routed(router, made.made, p))
      PROVE  Carries(store.groups)
  <2> HIDE DEF s
  <2> QED
    BY <1>1, <1>3, CarriesMake
<1> QED
  BY <1>2, <1>3 DEF OpenTab

\* The tab bar keeps every group.
LEMMA CarriesBar ==
    ASSUME IInv, NewTab \/ \E t \in Tabs : SetActiveTab(t)
    PROVE  Carries(store.groups)
<1> DEFINE s == store.activeSlug
<1>1. /\ s \in Slugs /\ store \in Store /\ RootOf(s) \in Path
      /\ Carried(store, router) /\ router \in [Tabs -> Router]
  BY CarriedNow, PagesAssumption
     DEF NewTab, SetActiveTab, IInv, Good, Typed, Store, RootOf, Path
<1>2. CASE NewTab
  <2>1. /\ store.made < MaxTabs
        /\ LET made == Made(store, s, RootOf(s))
           IN Commit([made EXCEPT !.activeTab[s] = made.made],
                     Routed(router, made.made, RootOf(s)))
    BY <1>2 DEF NewTab
  <2> HIDE DEF s
  <2> QED
    BY <1>1, <2>1, CarriesMake
<1>3. ASSUME NEW t \in Tabs, SetActiveTab(t)
      PROVE  Carries(store.groups)
  BY <1>1, <1>3, CarriesSelect DEF SetActiveTab
<1> QED
  BY <1>2, <1>3

\* So does closing a tab: the last of a group is replaced.
LEMMA CarriesClose ==
    ASSUME IInv, NEW t \in Tabs, CloseTab(t)
    PROVE  Carries(store.groups)
<1> DEFINE s == store.activeSlug
           closed == Dropped(store, {t})
           rt == Disposed(router, {t})
<1>1. s \in Slugs /\ store \in Store /\ RootOf(s) \in Path
  BY PagesAssumption DEF CloseTab, IInv, Good, Typed, Store, RootOf, Path
<1>2. {t} \in SUBSET Tabs
  OBVIOUS
<1>3. /\ Typed(closed, rt) /\ closed.made = store.made /\ closed.groups = store.groups
      /\ closed.activeTab = store.activeTab /\ closed.activeSlug = s
  BY <1>2, DropKeeps DEF IInv
<1>4. Carried(closed, rt) /\ rt \in [Tabs -> Router]
  BY <1>2, CarriedDrop
<1>5. closed \in Store
  BY <1>3 DEF Typed
<1>6. \/ /\ store.made < MaxTabs
         /\ LET made == Made(closed, s, RootOf(s))
            IN Commit([made EXCEPT !.activeTab[s] = made.made],
                      Routed(rt, made.made, RootOf(s)))
      \/ \E next \in TabsOf(store, s) \ {t} :
            Commit([closed EXCEPT !.activeTab[s] = next], rt)
  BY DEF CloseTab
<1> HIDE DEF closed, rt, s
<1>7. CASE /\ store.made < MaxTabs
           /\ LET made == Made(closed, s, RootOf(s))
              IN Commit([made EXCEPT !.activeTab[s] = made.made],
                        Routed(rt, made.made, RootOf(s)))
  BY <1>1, <1>3, <1>4, <1>5, <1>7, CarriesMake
<1>8. ASSUME NEW next \in TabsOf(store, s) \ {t},
             Commit([closed EXCEPT !.activeTab[s] = next], rt)
      PROVE  Carries(store.groups)
  <2> DEFINE new == [closed EXCEPT !.activeTab[s] = next]
  <2>1. next \in Tabs
    BY DEF TabsOf
  <2>2. /\ new \in Store /\ new.made = closed.made /\ new.groups = store.groups
        /\ new.owner = closed.owner /\ new.trail = closed.trail
    BY <1>1, <1>3, <1>5, <2>1 DEF Store
  <2> HIDE DEF new
  <2>3. Carried(new, rt)
    BY <1>4, <2>2, CarriedSame
  <2> QED
    BY <1>8, <2>2, <2>3 DEF Carries, new
<1> QED
  BY <1>6, <1>7, <1>8

\* What validating may leave carries the tabs, with the groups that are valid.
LEMMA CarriedValidated ==
    ASSUME IInv, NEW valid \in SUBSET Slugs, NEW st \in Validated(valid).store
    PROVE  /\ Carried(st, Validated(valid).router)
           /\ Validated(valid).router \in [Tabs -> Router]
           /\ st \in Store /\ st.groups = store.groups \cap valid
<1> DEFINE gone == {t \in Tabs : store.owner[t] # None /\ store.owner[t] \notin valid}
           left == store.groups \cap valid
           dropped == Dropped(store, gone)
<1>1. PICK next : st = [dropped EXCEPT
                          !.groups = left,
                          !.activeTab = [s \in Slugs |-> IF s \in left THEN @[s] ELSE None],
                          !.activeSlug = next]
  BY DEF Validated
<1>2. gone \in SUBSET Tabs /\ Validated(valid).router = Disposed(router, gone)
  BY DEF Validated
<1> HIDE DEF gone
<1>3. /\ Carried(dropped, Disposed(router, gone))
      /\ Disposed(router, gone) \in [Tabs -> Router]
  BY <1>2, CarriedDrop
<1>4. dropped \in Store
  BY <1>3 DEF Carried
<1> HIDE DEF dropped, left
<1>5. /\ st.made = dropped.made /\ st.groups = left
      /\ st.owner = dropped.owner /\ st.trail = dropped.trail
  BY <1>1, <1>4 DEF Store
<1>6. st \in Store
  BY ValidatedKeeps DEF Good, Typed
<1>7. Carried(st, Disposed(router, gone))
  BY <1>3, <1>5, <1>6, CarriedSame
<1> QED
  BY <1>2, <1>3, <1>5, <1>6, <1>7 DEF left

\* The heal effect keeps the groups of the list.
LEMMA CarriesHeal ==
    ASSUME IInv, Heal
    PROVE  Carries(store.groups \cap list)
<1>1. list \in SUBSET Slugs
  BY DEF Heal, IInv, Rest
<1>2. PICK st \in Validated(list).store : Commit(st, Validated(list).router)
  BY DEF Heal
<1> QED
  BY <1>1, <1>2, CarriedValidated DEF Carries

\* After a list that has workspaces, one of them has a group.
LEMMA CarriesList ==
    ASSUME IInv, ListArrives
    PROVE  \E gs : Carries(gs) /\ (members # {} => gs \cap members # {})
<1> DEFINE rt == Validated(members).router
<1>1. members \in SUBSET Slugs
  BY DEF IInv, Rest
<1>2. PICK st \in Validated(members).store :
         IF st.activeSlug = None /\ members # {}
         THEN \E s \in members :
                 /\ st.made < MaxTabs
                 /\ LET made == Made(st, s, RootOf(s))
                    IN Commit([made EXCEPT !.groups = @ \cup {s}, !.activeSlug = s,
                                           !.activeTab[s] = made.made],
                              Routed(rt, made.made, RootOf(s)))
         ELSE Commit(st, rt)
  BY DEF ListArrives
<1>3. /\ Carried(st, rt) /\ rt \in [Tabs -> Router]
      /\ st \in Store /\ st.groups = store.groups \cap members
  BY <1>1, CarriedValidated
<1>4. Entered(st)
  BY <1>1, ValidatedKeeps DEF Good
<1> HIDE DEF rt
<1>5. CASE Commit(st, rt) /\ (members # {} => st.activeSlug # None)
  <2>1. members # {} => st.groups \cap members # {}
    BY <1>3, <1>4, <1>5 DEF Entered
  <2>2. Carries(st.groups)
    BY <1>3, <1>5 DEF Carries
  <2> QED
    BY <2>1, <2>2
<1>6. ASSUME NEW s \in members, st.made < MaxTabs,
             LET made == Made(st, s, RootOf(s))
             IN Commit([made EXCEPT !.groups = @ \cup {s}, !.activeSlug = s,
                                    !.activeTab[s] = made.made],
                       Routed(rt, made.made, RootOf(s)))
      PROVE  Carries({s})
  <2> DEFINE p == RootOf(s)
             t0 == st.made + 1
             made == Made(st, s, p)
             new == [made EXCEPT !.groups = @ \cup {s}, !.activeSlug = s,
                                 !.activeTab[s] = made.made]
             rt2 == Routed(rt, t0, p)
  <2>1. s \in Slugs /\ p \in Path
    BY <1>1, PagesAssumption DEF Path, RootOf
  <2>2. /\ made \in Store /\ t0 \in Tabs /\ made.made = t0
        /\ made.groups = st.groups
        /\ made.owner = [st.owner EXCEPT ![t0] = s]
        /\ made.path = [st.path EXCEPT ![t0] = p]
        /\ made.activeTab = st.activeTab /\ made.activeSlug = st.activeSlug
    BY <1>3, <1>6, <2>1, MadeOf
  <2>3. made.trail = [st.trail EXCEPT ![t0] = NewTrail]
    BY <1>3, <2>1, MadeTrail
  <2>4. Commit(new, rt2)
    BY <1>6, <2>2
  <2> HIDE DEF made, p
  <2>5. /\ new \in Store /\ new.made = t0 /\ {s} \subseteq new.groups
        /\ new.owner = [st.owner EXCEPT ![t0] = s]
        /\ new.trail = [st.trail EXCEPT ![t0] = NewTrail]
    BY <2>1, <2>2, <2>3 DEF Store
  <2> HIDE DEF new
  <2>6. Carried(new, rt2)
    BY <1>3, <2>5, CarriedMade
  <2> HIDE DEF rt2
  <2> QED
    BY <2>4, <2>5, <2>6 DEF Carries
<1>7. CASE \E s \in members : Carries({s})
  BY <1>7
<1> QED
  BY <1>2, <1>5, <1>6, <1>7

\* A router replaced at its place has the history it had.
LEMMA ReplaceFollows ==
    ASSUME NEW r, RouterOK(r), NEW p \in Locations, NEW k, Follows(k, r)
    PROVE  Follows(k, Replaced(r, p))
<1>1. r.entries \in Seq(Locations) /\ r.at \in 1..Len(r.entries)
  BY DEF RouterOK, Router, Locations
<1>2. Replaced(r, p).entries = [r.entries EXCEPT ![r.at] = p] /\ Replaced(r, p).at = r.at
  BY DEF Replaced, RouterOK, Router
<1>3. Len([r.entries EXCEPT ![r.at] = p]) = Len(r.entries)
  BY <1>1
<1> QED
  BY <1>2, <1>3 DEF Follows

\* When the visible tab's router moves and its trail with it, the trails follow.
LEMMA MoveFollows ==
    ASSUME IInv, Followed, Unmade, NEW t \in Tabs, store.owner[t] # None,
           NEW r, NEW k, Moves(t, r, k), UNCHANGED unseen,
           t \notin unseen => Follows(k, r)
    PROVE  Followed' /\ Unmade' /\ store'.groups = store.groups
<1>1. /\ store \in Store /\ refs \in [Tabs -> Trail] /\ router \in [Tabs -> Router]
      /\ store.trail \in [Tabs -> Trail] /\ t <= store.made
  BY DEF IInv, Rest, Good, Typed, Known, Store
<1>2. /\ store'.trail = [store.trail EXCEPT ![t] = k] /\ store'.owner = store.owner
      /\ store'.made = store.made /\ store'.groups = store.groups
      /\ refs' = [refs EXCEPT ![t] = k] /\ router' = [router EXCEPT ![t] = r]
  BY <1>1 DEF Moves, Store
<1>3. ASSUME NEW u \in Tabs \ unseen, store.owner[u] # None
      PROVE  Follows(refs'[u], router'[u]) /\ Follows(store'.trail[u], router'[u])
  <2>1. CASE u = t
    BY <1>1, <1>2, <1>3, <2>1
  <2>2. CASE u # t
    BY <1>1, <1>2, <1>3, <2>2 DEF Followed
  <2> QED
    BY <2>1, <2>2
<1>4. Unmade'
  <2>1. ASSUME NEW u \in Tabs, u > store.made
        PROVE  refs'[u] = NewTrail
    <3>1. u # t
      BY <1>1, <2>1 DEF Store, Tabs
    <3> QED
      BY <1>1, <1>2, <2>1, <3>1 DEF Unmade
  <2> QED
    BY <1>2, <2>1 DEF Unmade
<1> QED
  BY <1>2, <1>3, <1>4 DEF Followed

\* What the invariant says of the visible tab.
LEMMA VisibleTab ==
    ASSUME IInv, Followed, NEW t \in Tabs, Visible(t)
    PROVE  /\ store.owner[t] # None /\ RouterOK(router[t]) /\ refs[t] \in Trail
           /\ t \notin unseen => Follows(refs[t], router[t])
<1>1. store.owner[t] # None
  BY ShownTab, SlugsAssumption DEF Visible, Shown
<1> QED
  BY <1>1 DEF IInv, Good, Typed, RouterOK, Rest, Followed

\* The steps of the visible tab.
LEMMA VisibleFollows ==
    ASSUME IInv, Followed, Unmade, PushTransition \/ GoBack \/ GoForward \/ PageBack
    PROVE  Followed' /\ Unmade' /\ store'.groups = store.groups
<1>1. CASE PushTransition
  <2>1. PICK t \in Tabs : Visible(t) /\ Moves(t, Replaced(router[t], Home), refs[t])
    BY <1>1 DEF PushTransition
  <2>2. /\ store.owner[t] # None /\ RouterOK(router[t])
        /\ t \notin unseen => Follows(refs[t], router[t])
    BY <2>1, VisibleTab
  <2>3. t \notin unseen => Follows(refs[t], Replaced(router[t], Home))
    BY <2>2, ReplaceFollows DEF Locations
  <2> QED
    BY <1>1, <2>1, <2>2, <2>3, MoveFollows DEF PushTransition
<1>2. CASE GoBack \/ GoForward \/ PageBack
  <2>1. UNCHANGED unseen
    BY <1>2 DEF GoBack, GoForward, PageBack
  <2>2. PICK t \in Tabs, back \in BOOLEAN :
           Visible(t) /\ Moves(t, Popped(router[t], back), TrailPopped(refs[t], back))
    BY <1>2 DEF GoBack, GoForward, PageBack
  <2>3. /\ store.owner[t] # None /\ RouterOK(router[t]) /\ refs[t] \in Trail
        /\ t \notin unseen => Follows(refs[t], router[t])
    BY <2>2, VisibleTab
  <2>4. t \notin unseen => Follows(TrailPopped(refs[t], back), Popped(router[t], back))
    BY <2>3, PopFollows
  <2> QED
    BY <2>1, <2>2, <2>3, <2>4, MoveFollows
<1> QED
  BY <1>1, <1>2

\* A push in the active workspace, by the visible page.
LEMMA PushStays ==
    ASSUME IInv, Followed, Unmade, NEW p \in Path, Push(p), p.slug = store.activeSlug
    PROVE  Followed' /\ Unmade' /\ store'.groups = store.groups
<1> DEFINE t == Shown(store)
<1>1. Moves(t, Pushed(router[t], p), TrailPushed(refs[t])) /\ UNCHANGED unseen
  BY DEF Push
<1>2. p.slug # None /\ p \in Locations
  BY SlugsAssumption DEF Path, Locations
<1>3. t \in Tabs /\ store.owner[t] # None
  BY <1>2, ShownTab
<1> HIDE DEF t
<1>4. RouterOK(router[t]) /\ refs[t] \in Trail
  BY <1>3 DEF IInv, Good, Typed, RouterOK, Rest
<1>5. t \notin unseen => Follows(refs[t], router[t])
  BY <1>3 DEF Followed
<1>6. t \notin unseen => Follows(TrailPushed(refs[t]), Pushed(router[t], p))
  BY <1>2, <1>4, <1>5, PushFollows
<1> QED
  BY <1>1, <1>3, <1>6, MoveFollows

\* A push that nobody listens to.
LEMMA UnseenFollows ==
    ASSUME IInv, Followed, Unmade, NEW t \in Tabs, NEW r, MovesUnseen(t, r)
    PROVE  Followed' /\ Unmade' /\ store' = store
<1>1. router \in [Tabs -> Router]
  BY DEF IInv, Good, Typed
<1>2. ASSUME NEW u \in Tabs \ unseen', store.owner[u] # None
      PROVE  Follows(refs[u], router'[u]) /\ Follows(store.trail[u], router'[u])
  BY <1>1, <1>2 DEF MovesUnseen, Followed
<1> QED
  BY <1>2 DEF MovesUnseen, Followed, Unmade

\* A step that keeps every group and the list leaves a workspace to see.
LEMMA LandedKept ==
    ASSUME Landed, list' = list, store.groups \subseteq store'.groups
    PROVE  Landed'
BY DEF Landed

\* Signing in and out, and a relaunch, start every trail anew; the list is fetched
\* again.
LEMMA SessionFollows ==
    ASSUME IInv, IInv', Followed, Unmade, Landed,
           MembersChange \/ Login \/ Logout \/ Relaunch
    PROVE  Followed' /\ Unmade' /\ Landed'
<1>1. \A t \in Tabs : Follows(NewTrail, router'[t])
  BY NewFollows DEF IInv, Good, Typed, RouterOK
<1>2. CASE MembersChange
  BY <1>2 DEF MembersChange, Followed, Unmade, Landed
<1>3. CASE Login
  <2>1. /\ store' = store /\ router' = router /\ unseen' = unseen
        /\ refs' = [t \in Tabs |-> NewTrail] /\ list' = Unfetched
    BY <1>3 DEF Login
  <2> QED
    BY <1>1, <2>1 DEF Followed, Unmade, Landed
<1>4. CASE Logout
  <2>1. /\ store'.made = store.made /\ \A t \in Tabs : store'.owner[t] = None
        /\ refs' = refs /\ list' = Unfetched
    BY <1>4 DEF Logout, EmptyStore
  <2> QED
    BY <2>1 DEF Followed, Unmade, Landed
<1>5. CASE Relaunch
  <2>1. refs' = [t \in Tabs |-> NewTrail] /\ list' = Unfetched
    BY <1>5 DEF Relaunch
  <2>2. store'.trail = [t \in Tabs |-> NewTrail]
    BY <1>5 DEF Relaunch
  <2> QED
    BY <1>1, <2>1, <2>2 DEF Followed, Unmade, Landed
<1> QED
  BY <1>2, <1>3, <1>4, <1>5

\* A path that is pushed or opened keeps every group.
LEMMA PathFollows ==
    ASSUME IInv, IInv', Followed, Unmade, NEW p \in Path,
           Push(p) \/ OpenInNewTab(p) \/ OpenNotified(p)
    PROVE  Followed' /\ Unmade' /\ store.groups \subseteq store'.groups /\ list' = list
<1>1. list' = list /\ unseen' = unseen
  BY DEF Push, OpenInNewTab, OpenNotified, session
<1>2. CASE Push(p) /\ p.slug = store.activeSlug
  BY <1>1, <1>2, PushStays
<1>3. CASE SwitchWorkspace(p.slug, p) \/ OpenTab(p)
  BY <1>1, <1>3, CarriesSwitch, CarriesOpen, CarriesFollow
<1> QED
  BY <1>2, <1>3 DEF Push, OpenInNewTab, OpenNotified

\* So does a late push.
LEMMA LateFollows ==
    ASSUME IInv, IInv', Followed, Unmade, NEW t \in Tabs, NEW page \in Pages,
           PushLate(t, page)
    PROVE  Followed' /\ Unmade' /\ store.groups \subseteq store'.groups /\ list' = list
<1> DEFINE s == Location(router[t]).slug
           p == [slug |-> s, page |-> page]
<1>1. Location(router[t]) \in Locations /\ list' = list
  BY LocationOf DEF PushLate, session, IInv, Good, Typed, RouterOK
<1>2. p \in Path /\ p.slug = s
  BY <1>1 DEF PushLate, Locations, Path, Home
<1>3. CASE SwitchWorkspace(s, p) /\ UNCHANGED unseen
  <2>1. SwitchWorkspace(p.slug, p)
    BY <1>2, <1>3
  <2> HIDE DEF p
  <2> QED
    BY <1>1, <1>2, <1>3, <2>1, CarriesSwitch, CarriesFollow
<1>4. CASE MovesUnseen(t, Pushed(router[t], p))
  BY <1>1, <1>4, UnseenFollows
<1> QED
  BY <1>3, <1>4 DEF PushLate

\* The three parts are kept by every step.
LEMMA StepFollows ==
    ASSUME IInv, IInv', Followed, Unmade, Landed, [Next]_vars
    PROVE  Followed' /\ Unmade' /\ Landed'
<1>1. CASE UNCHANGED vars
  BY <1>1 DEF vars, session, Followed, Unmade, Landed
<1>2. ASSUME NEW p \in Path, Push(p) \/ OpenInNewTab(p) \/ OpenNotified(p)
      PROVE  Followed' /\ Unmade' /\ Landed'
  BY <1>2, PathFollows, LandedKept
<1>3. CASE PushTransition \/ GoBack \/ GoForward \/ PageBack
  <2>1. list' = list
    BY <1>3 DEF PushTransition, GoBack, GoForward, PageBack, session
  <2> QED
    BY <1>3, <2>1, VisibleFollows, LandedKept
<1>4. ASSUME NEW t \in Tabs, NEW page \in Pages, PushLate(t, page)
      PROVE  Followed' /\ Unmade' /\ Landed'
  BY <1>4, LateFollows, LandedKept
<1>5. CASE NewTab \/ \E t \in Tabs : SetActiveTab(t) \/ CloseTab(t)
  <2>1. list' = list /\ unseen' = unseen
    BY <1>5 DEF NewTab, SetActiveTab, CloseTab, session
  <2>2. Carries(store.groups)
    BY <1>5, CarriesBar, CarriesClose
  <2> QED
    BY <2>1, <2>2, CarriesFollow, LandedKept
<1>6. CASE ListArrives
  <2>1. list' = members /\ unseen' = unseen
    BY <1>6 DEF ListArrives
  <2>2. PICK gs : Carries(gs) /\ (members # {} => gs \cap members # {})
    BY <1>6, CarriesList
  <2>3. Followed' /\ Unmade' /\ gs \subseteq store'.groups
    BY <2>1, <2>2, CarriesFollow
  <2> QED
    BY <2>1, <2>2, <2>3 DEF Landed
<1>7. CASE Heal
  <2>1. list' = list /\ unseen' = unseen
    BY <1>7 DEF Heal, session
  <2>2. Followed' /\ Unmade' /\ store.groups \cap list \subseteq store'.groups
    BY <1>7, <2>1, CarriesHeal, CarriesFollow
  <2> QED
    BY <2>1, <2>2 DEF Landed
<1>8. CASE MembersChange \/ Login \/ Logout \/ Relaunch
  BY <1>8, SessionFollows
<1> QED
  BY <1>1, <1>2, <1>3, <1>4, <1>5, <1>6, <1>7, <1>8 DEF Next

\* In every state, the trails follow and a list that arrived was landed on.
THEOREM FollowedAlways == Spec => [](IInv /\ Followed /\ Unmade /\ Landed)
<1>1. ASSUME Init
      PROVE  IInv /\ Followed /\ Unmade /\ Landed
  BY <1>1, InitKeeps DEF Init, EmptyStore, Followed, Unmade, Landed, Tabs
<1>2. ASSUME IInv, Followed, Unmade, Landed, [Next]_vars
      PROVE  IInv' /\ Followed' /\ Unmade' /\ Landed'
  BY <1>2, StepKeeps, StepFollows
<1> QED
  BY <1>1, <1>2, PTL DEF Spec

\* An enabled arrow of the title bar moves its tab, whatever was pushed after a back,
\* remounted or popped by the page (hooks/use-tab-history.ts).
THEOREM ButtonsAlways == Spec => []ButtonsWork
<1>1. ASSUME IInv, Followed, NEW t \in Tabs \ unseen, store.owner[t] # None
      PROVE  /\ store.trail[t].i > 0 => router[t].at > 1
             /\ store.trail[t].i + 1 < store.trail[t].n =>
                   router[t].at < Len(router[t].entries)
  <2>1. /\ store.trail[t].i \in Nat /\ store.trail[t].n \in Nat
        /\ router[t].at \in 1..Len(router[t].entries) /\ Len(router[t].entries) \in Nat
    BY <1>1 DEF IInv, Good, Typed, Store, Trail, Router
  <2>2. /\ store.trail[t].i < router[t].at
        /\ store.trail[t].n - store.trail[t].i <= Len(router[t].entries) - router[t].at + 1
    BY <1>1 DEF Followed, Follows
  <2>3. ASSUME NEW i \in Nat, NEW n \in Nat, NEW at \in Nat, NEW l \in Nat,
               i < at, n - i <= l - at + 1
        PROVE  (i > 0 => at > 1) /\ (i + 1 < n => at < l)
    BY <2>3
  <2>4. router[t].at \in Nat
    BY <2>1
  <2> QED
    <3> DEFINE k == store.trail[t]
               r == router[t]
               l == Len(r.entries)
               i == k.i
               n == k.n
               at == r.at
    <3>1. i \in Nat /\ n \in Nat /\ at \in Nat /\ l \in Nat /\ i < at /\ n - i <= l - at + 1
      BY <2>1, <2>2, <2>4
    <3> HIDE DEF i, n, at, l
    <3>2. (i > 0 => at > 1) /\ (i + 1 < n => at < l)
      BY <2>3, <3>1
    <3> QED
      BY <3>2 DEF i, n, at, l
<1>2. IInv /\ Followed => ButtonsWork
  BY <1>1 DEF ButtonsWork
<1> QED
  BY <1>2, FollowedAlways, PTL

\* A signed-in user whose list has workspaces sees a page of one of them, unless the
\* heal effect is about to drop the visible tab.
THEOREM StrandedAlways == Spec => []NeverStranded
<1>1. ASSUME IInv, Landed, signedIn, list \notin {Unfetched, {}}
      PROVE  \E t \in Tabs : /\ Visible(t)
                             /\ \/ Location(router[t]).slug \in list \cup {None}
                                \/ store.owner[t] \notin list
                                \/ t \in stray
  <2> DEFINE t == Shown(store)
  <2>1. store.activeSlug # None
    BY <1>1, SlugsAssumption DEF Landed, IInv, Good, Typed, Store, Entered
  <2>2. t \in Tabs /\ store.owner[t] = store.activeSlug
    BY <1>1, <2>1, ShownTab
  <2>3. t # None
    BY <2>2, NoneAssumption DEF Tabs
  <2> HIDE DEF t
  <2>4. RouterOK(router[t])
    BY <1>1, <2>2 DEF IInv, Good, Typed, RouterOK
  <2>5. t \notin stray => Location(router[t]).slug \in {store.owner[t], None}
    BY <1>1, <2>1, <2>2, <2>4, LocationOf DEF IInv, Good, Scoped, Within
  <2>6. Visible(t)
    BY <1>1, <2>3 DEF Visible, t
  <2> QED
    BY <2>2, <2>5, <2>6
<1>2. IInv /\ Landed => NeverStranded
  BY <1>1 DEF NeverStranded
<1> QED
  BY <1>2, FollowedAlways, PTL
=============================================================================
