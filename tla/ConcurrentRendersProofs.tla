---------------------- MODULE ConcurrentRendersProofs -----------------------
(***************************************************************************)
(* Proofs about ConcurrentRenders, for every program, every number of      *)
(* goroutines, keys and tags and every bound.                              *)
(***************************************************************************)
EXTENDS ConcurrentRenders, FoldProofs

-----------------------------------------------------------------------------
(* The render cache.                                                       *)

(* A step of the renders is one step of the cache, or none. *)
CacheStep ==
  \/ \E key : \E tags \in SUBSET Tags : Put(key, tags)
  \/ \E tag \in Tags : InvalidateTag(tag)
  \/ Clear
  \/ UNCHANGED cacheVars

LEMMA StepsOfTheCache == [Next]_vars => CacheStep
<1>1. ASSUME NEW w \in Workers,
             \/ StartRender(w) \/ SeedNext(w) \/ Statement(w) \/ TakeArm(w) \/ Include(w)
             \/ Embed(w) \/ RenderBlock(w) \/ CallBlockOfOther(w) \/ CallMacro(w)
             \/ SeedInvoked(w) \/ EnterMacro(w) \/ ReachCache(w) \/ Lookup(w) \/ Leave(w) \/ Fail(w)
      PROVE  UNCHANGED cacheVars
  BY <1>1 DEF StartRender, SeedNext, Statement, TakeArm, Include, Embed, RenderBlock,
              CallBlockOfOther, EnterBlock, CallMacro, SeedInvoked, EnterMacro, ReachCache,
              Lookup, Leave, Fail
<1>2. ASSUME NEW w \in Workers, Store(w) PROVE CacheStep
  BY <1>2 DEF Store, CacheStep
<1>3. ASSUME Host PROVE CacheStep
  BY <1>3 DEF Host, CacheStep
<1>4. ASSUME UNCHANGED vars PROVE UNCHANGED cacheVars
  BY <1>4 DEF vars
<1> QED BY <1>1, <1>2, <1>3, <1>4 DEF Next, CacheStep

(* The inductive invariant: each body has a name of its own among those given *)
(* out, and is listed under each of its tags.                                 *)
CacheInv ==
  /\ puts \in Nat /\ doomed \subseteq 1 .. puts
  /\ DOMAIN byTag = Tags
  /\ \A k \in DOMAIN entries :
       /\ entries[k].body \in 1 .. puts
       /\ entries[k].tags \subseteq Tags
       /\ \A t \in entries[k].tags : k \in byTag[t]
  /\ \A k, l \in DOMAIN entries : entries[k].body = entries[l].body => k = l
  /\ InvalidatedIsGone

LEMMA PutKeeps ==
  ASSUME CacheInv, NEW key, NEW tags \in SUBSET Tags, Put(key, tags)
  PROVE  CacheInv'
<1>1. /\ puts' = puts + 1 /\ puts \in Nat /\ doomed' = doomed
      /\ DOMAIN entries' = DOMAIN entries \cup {key}
      /\ entries'[key] = [body |-> puts + 1, tags |-> tags]
      /\ \A k \in DOMAIN entries : k # key => entries'[k] = entries[k]
      /\ DOMAIN byTag' = Tags
  BY DEF Put, Listed, CacheInv
<1>2. \A t \in Tags : byTag[t] \subseteq byTag'[t] /\ (t \in tags => key \in byTag'[t])
  BY DEF Put, Listed
<1>3. ASSUME NEW k \in DOMAIN entries'
      PROVE  /\ entries'[k].body \in 1 .. puts'
             /\ entries'[k].tags \subseteq Tags
             /\ \A t \in entries'[k].tags : k \in byTag'[t]
  <2>1. CASE k = key
    BY <1>1, <1>2, <2>1
  <2>2. CASE k # key
    <3>1. k \in DOMAIN entries /\ entries'[k] = entries[k]
      BY <1>1, <2>2
    <3> QED BY <1>1, <1>2, <3>1 DEF CacheInv
  <2> QED BY <2>1, <2>2
<1>4. ASSUME NEW k \in DOMAIN entries', NEW l \in DOMAIN entries',
             entries'[k].body = entries'[l].body
      PROVE  k = l
  <2>1. \A x \in DOMAIN entries' : x # key => x \in DOMAIN entries /\ entries'[x].body \in 1 .. puts
    BY <1>1 DEF CacheInv
  <2>2. entries'[key].body = puts + 1
    BY <1>1
  <2>3. CASE k # key /\ l # key
    BY <1>1, <1>4, <2>3 DEF CacheInv
  <2> QED BY <1>1, <1>4, <2>1, <2>2, <2>3
<1>5. InvalidatedIsGone'
  <2> SUFFICES ASSUME NEW k \in DOMAIN entries' PROVE entries'[k].body \notin doomed'
    BY DEF InvalidatedIsGone
  <2>1. CASE k = key
    BY <1>1, <2>1 DEF CacheInv
  <2>2. CASE k # key
    BY <1>1, <2>2 DEF CacheInv, InvalidatedIsGone
  <2> QED BY <2>1, <2>2
<1>6. doomed' \subseteq 1 .. puts' /\ puts' \in Nat
  BY <1>1 DEF CacheInv
<1> QED BY <1>1, <1>3, <1>4, <1>5, <1>6 DEF CacheInv

LEMMA InvalidateKeeps ==
  ASSUME CacheInv, NEW tag \in Tags, InvalidateTag(tag)
  PROVE  CacheInv'
<1> DEFINE Dropped == {k \in DOMAIN entries : tag \in entries[k].tags}
<1>1. /\ puts' = puts /\ puts \in Nat
      /\ DOMAIN entries' = DOMAIN entries \ byTag[tag]
      /\ \A k \in DOMAIN entries' : entries'[k] = entries[k]
      /\ doomed' = doomed \cup {entries[k].body : k \in Dropped}
      /\ DOMAIN byTag' = Tags /\ byTag'[tag] = {}
      /\ \A t \in Tags : t # tag => byTag'[t] = byTag[t]
  BY DEF InvalidateTag, Without, CacheInv
<1>2. \A k \in DOMAIN entries' : k \in DOMAIN entries /\ k \notin Dropped
  BY <1>1 DEF CacheInv
<1>3. ASSUME NEW k \in DOMAIN entries'
      PROVE  /\ entries'[k].body \in 1 .. puts'
             /\ entries'[k].tags \subseteq Tags
             /\ \A t \in entries'[k].tags : k \in byTag'[t]
  BY <1>1, <1>2 DEF CacheInv
<1>4. \A k, l \in DOMAIN entries' : entries'[k].body = entries'[l].body => k = l
  BY <1>1 DEF CacheInv
<1>5. doomed' \subseteq 1 .. puts'
  <2>1. \A k \in Dropped : entries[k].body \in 1 .. puts
    BY DEF CacheInv
  <2>2. doomed \subseteq 1 .. puts /\ puts' = puts
    BY <1>1 DEF CacheInv
  <2> HIDE DEF Dropped
  <2>3. {entries[k].body : k \in Dropped} \subseteq 1 .. puts
    BY <2>1
  <2> QED BY <1>1, <2>2, <2>3
<1>6. InvalidatedIsGone'
  <2> SUFFICES ASSUME NEW k \in DOMAIN entries' PROVE entries'[k].body \notin doomed'
    BY DEF InvalidatedIsGone
  <2>1. entries[k].body \notin doomed
    BY <1>2 DEF CacheInv, InvalidatedIsGone
  <2>2. \A x \in Dropped : entries[x].body # entries[k].body
    BY <1>2 DEF CacheInv
  <2> QED BY <1>1, <2>1, <2>2
<1> QED BY <1>1, <1>3, <1>4, <1>5, <1>6 DEF CacheInv

LEMMA CacheStepKeeps == CacheInv /\ CacheStep => CacheInv'
<1> SUFFICES ASSUME CacheInv, CacheStep PROVE CacheInv'
  OBVIOUS
<1>1. CASE \E key : \E tags \in SUBSET Tags : Put(key, tags)
  BY <1>1, PutKeeps
<1>2. CASE \E tag \in Tags : InvalidateTag(tag)
  BY <1>2, InvalidateKeeps
<1>3. CASE Clear
  BY <1>3 DEF Clear, CacheInv, InvalidatedIsGone
<1>4. CASE UNCHANGED cacheVars
  BY <1>4 DEF cacheVars, CacheInv, InvalidatedIsGone
<1> QED BY <1>1, <1>2, <1>3, <1>4 DEF CacheStep

(* Once InvalidateTag has returned, no body that was stored carrying the tag  *)
(* is in the store, whatever renders of other goroutines stored under the     *)
(* same keys before (RenderCache.Put, InvalidateTag).                         *)
THEOREM InvalidationReaches == Spec => []InvalidatedIsGone
<1>1. Init => CacheInv
  BY DEF Init, CacheInit, CacheInv, InvalidatedIsGone
<1>2. CacheInv /\ [Next]_vars => CacheInv'
  BY StepsOfTheCache, CacheStepKeeps
<1>3. CacheInv => InvalidatedIsGone
  BY DEF CacheInv
<1> QED BY <1>1, <1>2, <1>3, PTL DEF Spec

-----------------------------------------------------------------------------
(* The collectors.                                                         *)

(* A core counts in natural numbers. *)
Counting(c) ==
  /\ DOMAIN c = {"hits", "seededFull", "seededMacro", "sources"}
  /\ c.hits \in [DOMAIN c.hits -> Nat]

Grows(c, d) == \A r \in DOMAIN c.hits : r \in DOMAIN d.hits /\ d.hits[r] >= c.hits[r]

(* Nothing but seeds and hits happens to a core. *)
OneCall(c, d) ==
  \/ d = c
  \/ \E t : d = SeedTemplate(c, t)
  \/ \E m : d = SeedMacro(c, m)
  \/ \E region : d = Hit(c, region)

LEMMA NewCoreCounts == Counting(NewCore)
<1>1. <<>> \in Seq(Nat) /\ Len(<<>>) = 0
  BY EmptySeq
<1>2. <<>> \in [1..0 -> Nat] /\ DOMAIN <<>> = 1..0
  BY <1>1, LenProperties
<1>3. NewCore.hits = <<>> /\ DOMAIN NewCore = {"hits", "seededFull", "seededMacro", "sources"}
  BY DEF NewCore
<1> QED BY <1>2, <1>3 DEF Counting

LEMMA SeededGrows ==
  ASSUME NEW c, Counting(c), NEW regions
  PROVE  Counting(Seeded(c, regions)) /\ Grows(c, Seeded(c, regions))
<1> DEFINE d == Seeded(c, regions)
<1>1. /\ DOMAIN d = DOMAIN c
      /\ d.hits = [r \in DOMAIN c.hits \cup regions |-> IF r \in DOMAIN c.hits THEN c.hits[r] ELSE 0]
  BY DEF Seeded, Counting
<1> HIDE DEF d
<1>2. Counting(d) /\ Grows(c, d)
  BY <1>1 DEF Counting, Grows
<1> QED BY <1>2 DEF d

LEMMA HitGrows ==
  ASSUME NEW c, Counting(c), NEW region
  PROVE  Counting(Hit(c, region)) /\ Grows(c, Hit(c, region))
<1> DEFINE s == Seeded(c, {region})
           d == Hit(c, region)
<1>1. Counting(s) /\ Grows(c, s)
  BY SeededGrows
<1>2. region \in DOMAIN s.hits
  BY DEF Seeded, Counting
<1>3. d = [s EXCEPT !.hits[region] = @ + 1]
  BY DEF Hit
<1> HIDE DEF s, d
<1>4. /\ DOMAIN d = DOMAIN s /\ DOMAIN d.hits = DOMAIN s.hits
      /\ d.hits = [s.hits EXCEPT ![region] = @ + 1]
      /\ \A r \in DOMAIN s.hits : d.hits[r] = IF r = region THEN s.hits[r] + 1 ELSE s.hits[r]
  BY <1>1, <1>2, <1>3 DEF Counting
<1>5. d.hits \in [DOMAIN d.hits -> Nat] /\ DOMAIN d = DOMAIN s
  <2> DEFINE h == s.hits
             D == DOMAIN s.hits
  <2>1. h \in [D -> Nat] /\ h[region] + 1 \in Nat
    BY <1>1, <1>2 DEF Counting
  <2>2. d.hits = [h EXCEPT ![region] = h[region] + 1] /\ DOMAIN d.hits = D
    BY <1>4
  <2> HIDE DEF h, D
  <2>3. d.hits \in [D -> Nat]
    BY <2>1, <2>2
  <2> QED BY <1>4, <2>2, <2>3
<1>6. Grows(c, d)
  BY <1>1, <1>4 DEF Counting, Grows
<1>7. Counting(d)
  BY <1>1, <1>5 DEF Counting
<1> QED BY <1>6, <1>7 DEF d

LEMMA OneCallGrows ==
  ASSUME NEW c, Counting(c), NEW d, OneCall(c, d)
  PROVE  Counting(d) /\ Grows(c, d)
<1>0. Grows(c, c)
  BY DEF Grows, Counting
<1>1. CASE d = c
  BY <1>0, <1>1
<1>2. ASSUME NEW t, d = SeedTemplate(c, t) PROVE Counting(d) /\ Grows(c, d)
  <2> DEFINE k == [c EXCEPT !.seededFull = @ \cup {t}, !.sources = @ \cup {t}]
  <2>1. Counting(k) /\ k.hits = c.hits
    BY DEF Counting
  <2>2. d = c \/ d = Seeded(k, Walked[t])
    BY <1>2 DEF SeedTemplate
  <2> HIDE DEF k
  <2>3. CASE d = Seeded(k, Walked[t])
    BY <2>1, <2>3, SeededGrows DEF Grows
  <2> QED BY <1>0, <2>2, <2>3
<1>3. ASSUME NEW m, d = SeedMacro(c, m) PROVE Counting(d) /\ Grows(c, d)
  <2> DEFINE known == [c EXCEPT !.sources = @ \cup {HomeOf[m]}]
             k == [known EXCEPT !.seededMacro = @ \cup {m}]
  <2>1. /\ Counting(known) /\ known.hits = c.hits
        /\ Counting(k) /\ k.hits = c.hits
    BY DEF Counting
  <2>2. d = c \/ d = known \/ d = Seeded(k, Walked[m])
    BY <1>3 DEF SeedMacro
  <2> HIDE DEF k, known
  <2>3. CASE d = known
    BY <1>0, <2>1, <2>3 DEF Grows
  <2>4. CASE d = Seeded(k, Walked[m])
    BY <2>1, <2>4, SeededGrows DEF Grows
  <2> QED BY <1>0, <2>2, <2>3, <2>4
<1>4. ASSUME NEW region, d = Hit(c, region) PROVE Counting(d) /\ Grows(c, d)
  BY <1>4, HitGrows
<1> QED BY <1>1, <1>2, <1>3, <1>4 DEF OneCall

CoreStep == DOMAIN core' = Collectors /\ \A c \in Collectors : OneCall(core[c], core'[c])

LEMMA StepsOfTheCores ==
  ASSUME DOMAIN core = Collectors, [Next]_vars
  PROVE  CoreStep
<1>1. ASSUME NEW w \in Workers, NEW own, NEW common,
             core' = [core EXCEPT ![w] = own, ![Shared] = common],
             OneCall(core[w], own), OneCall(core[Shared], common)
      PROVE  CoreStep
  <2>1. w # Shared
    BY CollectorsAssumption
  <2> QED BY <1>1, <2>1 DEF CoreStep, OneCall
<1>2. ASSUME UNCHANGED core PROVE CoreStep
  BY <1>2 DEF CoreStep, OneCall
<1>3. ASSUME NEW w \in Workers, NEW n, NEW kind, Recorded(w, n, kind) PROVE CoreStep
  <2>1. core' = [core EXCEPT ![w] = Hit(core[w], [node |-> n, kind |-> kind]),
                           ![Shared] = Hit(core[Shared], [node |-> n, kind |-> kind])]
    BY <1>3, CollectorsAssumption DEF Recorded, Record
  <2>2. \A c : OneCall(c, Hit(c, [node |-> n, kind |-> kind]))
    BY DEF OneCall
  <2> QED BY <1>1, <2>1, <2>2
<1>4. ASSUME NEW w \in Workers, SeedNext(w) PROVE CoreStep
  <2> DEFINE t == Head(Top(w).pending)
  <2>1. core' = [core EXCEPT ![w] = SeedTemplate(core[w], t),
                           ![Shared] = SeedTemplate(core[Shared], t)]
    BY <1>4, CollectorsAssumption DEF SeedNext, Record
  <2>2. \A c : OneCall(c, SeedTemplate(c, t))
    BY DEF OneCall
  <2> QED BY <1>1, <2>1, <2>2
<1>5. ASSUME NEW w \in Workers, SeedInvoked(w) PROVE CoreStep
  <2> DEFINE m == Body[Top(w).body]
  <2>1. core' = [core EXCEPT ![w] = SeedMacro(core[w], m),
                           ![Shared] = SeedMacro(core[Shared], m)]
    BY <1>5, CollectorsAssumption DEF SeedInvoked, Record
  <2>2. \A c : OneCall(c, SeedMacro(c, m))
    BY DEF OneCall
  <2> QED BY <1>1, <2>1, <2>2
<1>6. ASSUME NEW w \in Workers,
             \/ Statement(w) \/ TakeArm(w) \/ Include(w) \/ Embed(w) \/ RenderBlock(w)
             \/ CallBlockOfOther(w) \/ EnterMacro(w) \/ ReachCache(w)
      PROVE  CoreStep
  BY <1>3, <1>6 DEF Statement, TakeArm, Include, Embed, RenderBlock, CallBlockOfOther, EnterBlock,
                        EnterMacro, ReachCache
<1>7. ASSUME NEW w \in Workers,
             \/ StartRender(w) \/ CallMacro(w) \/ Lookup(w) \/ Store(w) \/ Leave(w) \/ Fail(w)
      PROVE  UNCHANGED core
  BY <1>7 DEF StartRender, CallMacro, Lookup, Store, Leave, Fail
<1>8. ASSUME Host \/ UNCHANGED vars PROVE UNCHANGED core
  BY <1>8 DEF Host, vars
<1> QED BY <1>2, <1>4, <1>5, <1>6, <1>7, <1>8 DEF Next

AllCounting == DOMAIN core = Collectors /\ \A c \in Collectors : Counting(core[c])

(* A step of any goroutine leaves every region a report of any collector       *)
(* showed in it, with a counter no smaller: seeding a template, or a macro     *)
(* that is imported under another entry, never resets (Core.region, Core.Hit). *)
THEOREM ReportsGrow == Spec => CountersGrow
<1>1. Init => AllCounting
  BY NewCoreCounts DEF Init, CoverageInit, AllCounting
<1>2. ASSUME AllCounting, [Next]_vars
      PROVE  AllCounting' /\ \A c \in Collectors : Grows(core[c], core'[c])
  <2>1. CoreStep
    BY <1>2, StepsOfTheCores DEF AllCounting
  <2> QED BY <1>2, <2>1, OneCallGrows DEF AllCounting, CoreStep
<1>3. AllCounting /\ [Next]_vars =>
        [\A c \in Collectors : \A r \in DOMAIN core[c].hits :
           r \in DOMAIN core'[c].hits /\ core'[c].hits[r] >= core[c].hits[r]]_vars
  BY <1>2 DEF Grows
<1> QED BY <1>1, <1>2, <1>3, PTL DEF Spec, CountersGrow

-----------------------------------------------------------------------------
(* The forest of bodies.                                                   *)

LEMMA UnderRoot ==
  ASSUME NEW root \in Templates \cup Nodes
  PROVE  root \in Under[root] /\ Under[root] \subseteq {root} \cup Nodes
BY DEF Under

LEMMA UnderClosed ==
  ASSUME NEW root \in Templates \cup Nodes, NEW n \in Nodes, Body[n] \in Under[root]
  PROVE  n \in Under[root]
<1> SUFFICES ASSUME NEW S \in SUBSET Nodes,
                    \A m \in Nodes : Body[m] \in S \cup {root} => m \in S
             PROVE  n \in S
  BY DEF Under
<1>1. Body[n] = root \/ Body[n] \in S
  BY DEF Under
<1> QED BY <1>1

(* Whatever holds of the nodes of a body, and goes from a node to those of its *)
(* body, holds of all below.                                                   *)
LEMMA UnderWithin ==
  ASSUME NEW root \in Templates \cup Nodes, NEW S \in SUBSET Nodes,
         \A m \in Nodes : Body[m] \in S \cup {root} => m \in S
  PROVE  Under[root] \subseteq {root} \cup S
BY DEF Under

LEMMA UnderNested ==
  ASSUME NEW root \in Templates \cup Nodes, NEW b \in Under[root]
  PROVE  b \in Templates \cup Nodes /\ Under[b] \subseteq Under[root]
<1>1. b \in Templates \cup Nodes
  BY UnderRoot
<1> DEFINE S == Under[root] \cap Nodes
<1>2. \A m \in Nodes : Body[m] \in S \cup {b} => m \in S
  BY UnderClosed
<1>3. Under[b] \subseteq {b} \cup S
  <2> HIDE DEF S
  <2>1. S \in SUBSET Nodes
    BY DEF S
  <2> QED BY <1>1, <1>2, <2>1, UnderWithin
<1> QED BY <1>1, <1>3

LEMMA UnderParent ==
  ASSUME NEW root \in Templates \cup Nodes, NEW n \in Nodes, n \in Under[root], n # root
  PROVE  Body[n] \in Under[root]
<1> DEFINE S == {m \in Nodes : m \in Under[root] /\ Body[m] \in Under[root]}
<1>1. \A m \in Nodes : Body[m] \in S \cup {root} => m \in S
  BY UnderClosed, UnderRoot
<1>2. Under[root] \subseteq {root} \cup S
  <2>1. S \in SUBSET Nodes
    OBVIOUS
  <2> HIDE DEF S
  <2> QED BY <1>1, <2>1, UnderWithin
<1> QED BY <1>2

(* A node stands below one template. *)
LEMMA OneHome ==
  ASSUME NEW t \in Templates, NEW u \in Templates, NEW n \in Nodes,
         n \in Under[t], n \in Under[u]
  PROVE  t = u
<1> SUFFICES ASSUME t # u PROVE FALSE
  OBVIOUS
<1> DEFINE S == {m \in Nodes : m \notin Under[u]}
<1>1. t \notin Under[u]
  BY UnderRoot, ForestAssumption
<1>2. ASSUME NEW m \in Nodes, Body[m] \in S \cup {t} PROVE m \in S
  <2>1. Body[m] \notin Under[u]
    BY <1>1, <1>2
  <2> QED BY <2>1, UnderParent, ForestAssumption
<1>3. Under[t] \subseteq {t} \cup S
  <2>1. S \in SUBSET Nodes
    OBVIOUS
  <2> HIDE DEF S
  <2> QED BY <1>2, <2>1, UnderWithin
<1> QED BY <1>3, ForestAssumption

LEMMA HomeIs ==
  ASSUME NEW n \in Nodes, NEW t \in Templates, n \in Under[t]
  PROVE  HomeOf[n] = t
BY OneHome DEF HomeOf

LEMMA HomeBelow ==
  ASSUME NEW b \in Templates \cup Nodes
  PROVE  /\ Home(b) \in Templates /\ b \in Under[Home(b)]
         /\ \A n \in Under[b] \cap Nodes : HomeOf[n] = Home(b)
<1>1. Home(b) \in Templates /\ b \in Under[Home(b)]
  <2>1. CASE b \in Templates
    BY <2>1, UnderRoot DEF Home
  <2>2. CASE b \notin Templates
    <3>1. b \in Nodes /\ Home(b) = HomeOf[b]
      BY <2>2 DEF Home
    <3>2. PICK t \in Templates : b \in Under[t]
      BY <3>1, ForestAssumption
    <3> QED BY <3>1, <3>2, HomeIs
  <2> QED BY <2>1, <2>2
<1>2. Under[b] \subseteq Under[Home(b)]
  BY <1>1, UnderNested
<1> QED BY <1>1, <1>2, HomeIs

LEMMA WalkedBelow ==
  ASSUME NEW root \in Templates \cup Nodes
  PROVE  /\ \A b \in Under[root] : Walked[b] \subseteq Walked[root] /\ Home(b) = Home(root)
         /\ \A r \in Walked[root] : r.node \in Nodes /\ HomeOf[r.node] = Home(root)
<1>1. Walked = [x \in Templates \cup Nodes |-> UNION {Regions(n) : n \in Under[x] \cap Nodes}]
  BY DEF Walked
<1>2. ASSUME NEW b \in Under[root] PROVE Walked[b] \subseteq Walked[root] /\ Home(b) = Home(root)
  <2>1. b \in Templates \cup Nodes /\ Under[b] \subseteq Under[root]
    BY UnderNested
  <2>2. Walked[b] \subseteq Walked[root]
    BY <1>1, <2>1
  <2>3. CASE b = root
    BY <2>3
  <2>4. CASE b # root
    <3>1. b \in Nodes
      BY <2>4, UnderRoot
    <3>2. Home(b) = HomeOf[b]
      BY <3>1, ForestAssumption DEF Home
    <3> QED BY <2>2, <3>1, <3>2, HomeBelow
  <2> QED BY <2>2, <2>3, <2>4
<1>3. ASSUME NEW r \in Walked[root] PROVE r.node \in Nodes /\ HomeOf[r.node] = Home(root)
  <2>1. PICK n \in Under[root] \cap Nodes : r \in Regions(n)
    BY <1>1, <1>3
  <2>2. r.node = n
    BY <2>1 DEF Regions
  <2> QED BY <2>1, <2>2, HomeBelow
<1> QED BY <1>2, <1>3

-----------------------------------------------------------------------------
(* What was entered was seeded.                                            *)

(* The report of a core shows every region below body b, and has its source. *)
Reached(c, b) == Walked[b] \subseteq DOMAIN c.hits /\ Home(b) \in c.sources

(* The two memos of a core say the truth, and a region that was registered   *)
(* and not hit has its source there.                                         *)
CoreInv(c) ==
  /\ Counting(c)
  /\ c.seededFull \subseteq Templates /\ \A t \in c.seededFull : Reached(c, t)
  /\ c.seededMacro \subseteq Nodes /\ \A m \in c.seededMacro : Reached(c, m)
  /\ \A r \in DOMAIN c.hits : c.hits[r] = 0 => HomeOf[r.node] \in c.sources

(* The collectors of w's render. *)
Attached(w) == {w, Shared}

Seen(cores, w, root) == \A c \in Attached(w) : Reached(cores[c], root)

(* What the construct of an open body enters was seeded, or is among the     *)
(* templates the body still waits for.                                       *)
FrameInv(cores, w, f) ==
  \A root \in Entered(f) :
    \/ Seen(cores, w, root)
    \/ f.pending \in Seq(Templates) /\ root \in ToSet(f.pending)

Constructs == {"render", "include", "embed", "block", "call", "macro", "cache"}

Frames ==
  [by : Constructs, body : Templates \cup Nodes,
   pending : Seq(Templates \cup Nodes \cup CacheKeys), key : CacheKeys \cup {NoKey}]

WalkInv(cores, w, s) == s \in Seq(Frames) /\ \A i \in 1 .. Len(s) : FrameInv(cores, w, s[i])

(* A core only learns. *)
Knows(c, d) == DOMAIN c.hits \subseteq DOMAIN d.hits /\ c.sources \subseteq d.sources

CoresInv == DOMAIN core = Collectors /\ \A c \in Collectors : CoreInv(core[c])

CoverInv ==
  /\ CoresInv
  /\ DOMAIN walk = Workers /\ \A w \in Workers : WalkInv(core, w, walk[w])

CoresKnow == \A c \in Collectors : Knows(core[c], core'[c])

-----------------------------------------------------------------------------
(* What each call of a collector establishes and keeps.                    *)

LEMMA KnowsReached ==
  ASSUME NEW c, NEW d, Knows(c, d), NEW b, Reached(c, b)
  PROVE  Reached(d, b)
BY DEF Knows, Reached

LEMMA SeedTemplateReaches ==
  ASSUME NEW c, CoreInv(c), NEW t \in Templates
  PROVE  LET d == SeedTemplate(c, t) IN CoreInv(d) /\ Knows(c, d) /\ Reached(d, t)
<1> DEFINE k == [c EXCEPT !.seededFull = @ \cup {t}, !.sources = @ \cup {t}]
           d == Seeded(k, Walked[t])
<1>1. CASE t \in c.seededFull
  BY <1>1 DEF SeedTemplate, CoreInv, Knows
<1>2. CASE t \notin c.seededFull
  <2>1. Counting(c)
    BY DEF CoreInv
  <2>2. /\ k.hits = c.hits /\ k.seededFull = c.seededFull \cup {t}
        /\ k.seededMacro = c.seededMacro /\ k.sources = c.sources \cup {t} /\ Counting(k)
    BY <2>1 DEF Counting
  <2> HIDE DEF k
  <2>3. /\ DOMAIN d.hits = DOMAIN c.hits \cup Walked[t] /\ d.seededFull = c.seededFull \cup {t}
        /\ d.seededMacro = c.seededMacro /\ d.sources = c.sources \cup {t} /\ Counting(d)
        /\ \A r \in DOMAIN c.hits : d.hits[r] = c.hits[r]
    <3>1. Counting(d)
      BY <2>2, SeededGrows
    <3> QED BY <2>2, <3>1 DEF Seeded, Counting
  <2>4. SeedTemplate(c, t) = d
    BY <1>2 DEF SeedTemplate, k
  <2> HIDE DEF d
  <2>5. Knows(c, d) /\ Reached(d, t)
    BY <2>3 DEF Knows, Reached, Home
  <2>6. \A r \in DOMAIN d.hits : d.hits[r] = 0 => HomeOf[r.node] \in d.sources
    <3>1. \A r \in Walked[t] : HomeOf[r.node] = t
      BY WalkedBelow DEF Home
    <3> QED BY <2>3, <3>1 DEF CoreInv
  <2>7. CoreInv(d)
    BY <2>3, <2>5, <2>6, KnowsReached DEF CoreInv
  <2> QED BY <2>4, <2>5, <2>7
<1> QED BY <1>1, <1>2

LEMMA SeedMacroReaches ==
  ASSUME NEW c, CoreInv(c), NEW m \in Nodes
  PROVE  LET d == SeedMacro(c, m) IN CoreInv(d) /\ Knows(c, d) /\ Reached(d, m)
<1> DEFINE known == [c EXCEPT !.sources = @ \cup {HomeOf[m]}]
           k == [known EXCEPT !.seededMacro = @ \cup {m}]
           d == Seeded(k, Walked[m])
<1>0. Counting(c) /\ Home(m) = HomeOf[m]
  BY ForestAssumption DEF CoreInv, Home
<1>1. /\ known.hits = c.hits /\ known.seededFull = c.seededFull /\ Counting(known)
      /\ known.seededMacro = c.seededMacro /\ known.sources = c.sources \cup {HomeOf[m]}
      /\ k.hits = c.hits /\ k.seededFull = c.seededFull /\ Counting(k)
      /\ k.seededMacro = c.seededMacro \cup {m} /\ k.sources = c.sources \cup {HomeOf[m]}
  BY <1>0 DEF Counting
<1>2. CASE HomeOf[m] \in c.seededFull
  <2>1. Reached(c, HomeOf[m]) /\ HomeOf[m] \in Templates /\ m \in Under[HomeOf[m]]
    BY <1>0, <1>2, HomeBelow DEF CoreInv
  <2>2. Walked[m] \subseteq Walked[HomeOf[m]] /\ Home(m) = Home(HomeOf[m])
    BY <2>1, WalkedBelow
  <2>3. Reached(c, m)
    BY <2>1, <2>2 DEF Reached
  <2>4. SeedMacro(c, m) = c
    BY <1>2 DEF SeedMacro
  <2> QED BY <2>3, <2>4 DEF Knows
<1>3. CASE HomeOf[m] \notin c.seededFull /\ m \in c.seededMacro
  <2>1. SeedMacro(c, m) = known
    BY <1>3 DEF SeedMacro
  <2> HIDE DEF known
  <2>2. Knows(c, known)
    BY <1>1 DEF Knows
  <2>3. CoreInv(known)
    BY <1>1, <2>2, KnowsReached DEF CoreInv
  <2>4. Reached(known, m)
    BY <1>1, <1>3, <2>3 DEF CoreInv
  <2> QED BY <2>1, <2>2, <2>3, <2>4
<1>4. CASE HomeOf[m] \notin c.seededFull /\ m \notin c.seededMacro
  <2>1. SeedMacro(c, m) = d
    BY <1>4 DEF SeedMacro
  <2> HIDE DEF k, known
  <2>2. /\ DOMAIN d.hits = DOMAIN c.hits \cup Walked[m] /\ d.seededFull = c.seededFull
        /\ d.seededMacro = c.seededMacro \cup {m} /\ d.sources = c.sources \cup {HomeOf[m]}
        /\ Counting(d)
        /\ \A r \in DOMAIN c.hits : d.hits[r] = c.hits[r]
    <3>1. Counting(d)
      BY <1>1, SeededGrows
    <3> QED BY <1>1, <3>1 DEF Seeded, Counting
  <2> HIDE DEF d
  <2>3. Knows(c, d) /\ Reached(d, m)
    BY <1>0, <2>2 DEF Knows, Reached
  <2>4. \A r \in DOMAIN d.hits : d.hits[r] = 0 => HomeOf[r.node] \in d.sources
    <3>1. \A r \in Walked[m] : HomeOf[r.node] = HomeOf[m]
      BY <1>0, WalkedBelow
    <3> QED BY <2>2, <3>1 DEF CoreInv
  <2>5. CoreInv(d)
    BY <2>2, <2>3, <2>4, KnowsReached DEF CoreInv
  <2> QED BY <2>1, <2>3, <2>5
<1> QED BY <1>2, <1>3, <1>4

(* A hit needs no seed: the region it creates is not at zero. *)
LEMMA HitKeeps ==
  ASSUME NEW c, CoreInv(c), NEW region
  PROVE  LET d == Hit(c, region) IN CoreInv(d) /\ Knows(c, d)
<1> DEFINE s == Seeded(c, {region})
           d == Hit(c, region)
<1>1. Counting(c) /\ Counting(s) /\ Counting(d)
  BY SeededGrows, HitGrows DEF CoreInv
<1>2. /\ DOMAIN s.hits = DOMAIN c.hits \cup {region} /\ s.seededFull = c.seededFull
      /\ s.seededMacro = c.seededMacro /\ s.sources = c.sources
      /\ \A r \in DOMAIN c.hits : s.hits[r] = c.hits[r]
  BY <1>1 DEF Seeded, Counting
<1>3. d = [s EXCEPT !.hits[region] = @ + 1]
  BY DEF Hit
<1> HIDE DEF s, d
<1>4. /\ DOMAIN d.hits = DOMAIN c.hits \cup {region} /\ d.seededFull = c.seededFull
      /\ d.seededMacro = c.seededMacro /\ d.sources = c.sources
      /\ d.hits[region] = s.hits[region] + 1 /\ s.hits[region] \in Nat
      /\ \A r \in DOMAIN c.hits : r # region => d.hits[r] = c.hits[r]
  BY <1>1, <1>2, <1>3 DEF Counting
<1>5. Knows(c, d)
  BY <1>4 DEF Knows
<1>6. \A r \in DOMAIN d.hits : d.hits[r] = 0 => HomeOf[r.node] \in d.sources
  <2>1. d.hits[region] # 0
    BY <1>4
  <2> QED BY <1>4, <2>1 DEF CoreInv
<1>7. CoreInv(d)
  BY <1>1, <1>4, <1>5, <1>6, KnowsReached DEF CoreInv
<1> QED BY <1>5, <1>7 DEF d

LEMMA RecordKeeps ==
  ASSUME CoresInv, NEW w \in Workers, NEW after, Record(w, after),
         \A c \in Attached(w) : CoreInv(after[c]) /\ Knows(core[c], after[c])
  PROVE  /\ CoresInv' /\ CoresKnow
         /\ \A c \in Attached(w) : core'[c] = after[c]
<1>1. /\ w \in Collectors /\ Shared \in Collectors /\ w # Shared
  BY CollectorsAssumption
<1>2. /\ DOMAIN core' = Collectors /\ core'[w] = after[w] /\ core'[Shared] = after[Shared]
      /\ \A c \in Collectors : c \notin Attached(w) => core'[c] = core[c]
  BY <1>1 DEF Record, CoresInv, Attached
<1>3. \A c \in Attached(w) : core'[c] = after[c]
  BY <1>2 DEF Attached
<1> QED BY <1>2, <1>3 DEF CoresInv, CoresKnow, Knows

LEMMA RecordedKeeps ==
  ASSUME CoresInv, NEW w \in Workers, NEW n, NEW kind, Recorded(w, n, kind)
  PROVE  CoresInv' /\ CoresKnow
<1> DEFINE region == [node |-> n, kind |-> kind]
           after == [c \in Collectors |-> Hit(core[c], region)]
<1>1. Record(w, after)
  BY DEF Recorded
<1>2. Attached(w) \subseteq Collectors
  BY CollectorsAssumption DEF Attached
<1>3. ASSUME NEW c \in Attached(w) PROVE CoreInv(after[c]) /\ Knows(core[c], after[c])
  <2> HIDE DEF region
  <2>1. CoreInv(core[c]) /\ after[c] = Hit(core[c], region)
    BY <1>2 DEF CoresInv
  <2> QED BY <2>1, HitKeeps
<1> HIDE DEF after
<1> QED BY <1>1, <1>3, RecordKeeps

LEMMA SeedTemplateKeeps ==
  ASSUME CoresInv, NEW w \in Workers, NEW t \in Templates,
         Record(w, [c \in Collectors |-> SeedTemplate(core[c], t)])
  PROVE  CoresInv' /\ CoresKnow /\ Seen(core', w, t)
<1> DEFINE after == [c \in Collectors |-> SeedTemplate(core[c], t)]
<1>1. Attached(w) \subseteq Collectors
  BY CollectorsAssumption DEF Attached
<1>2. ASSUME NEW c \in Attached(w)
      PROVE  CoreInv(after[c]) /\ Knows(core[c], after[c]) /\ Reached(after[c], t)
  <2>1. CoreInv(core[c]) /\ after[c] = SeedTemplate(core[c], t)
    BY <1>1 DEF CoresInv
  <2> QED BY <2>1, SeedTemplateReaches
<1>3. Record(w, after)
  OBVIOUS
<1> HIDE DEF after
<1> QED BY <1>2, <1>3, RecordKeeps DEF Seen

LEMMA SeedMacroKeeps ==
  ASSUME CoresInv, NEW w \in Workers, NEW m \in Nodes,
         Record(w, [c \in Collectors |-> SeedMacro(core[c], m)])
  PROVE  CoresInv' /\ CoresKnow /\ Seen(core', w, m)
<1> DEFINE after == [c \in Collectors |-> SeedMacro(core[c], m)]
<1>1. Attached(w) \subseteq Collectors
  BY CollectorsAssumption DEF Attached
<1>2. ASSUME NEW c \in Attached(w)
      PROVE  CoreInv(after[c]) /\ Knows(core[c], after[c]) /\ Reached(after[c], m)
  <2>1. CoreInv(core[c]) /\ after[c] = SeedMacro(core[c], m)
    BY <1>1 DEF CoresInv
  <2> QED BY <2>1, SeedMacroReaches
<1>3. Record(w, after)
  OBVIOUS
<1> HIDE DEF after
<1> QED BY <1>2, <1>3, RecordKeeps DEF Seen

-----------------------------------------------------------------------------
(* What happens to the open bodies of a render.                            *)

LEMMA SeenKept ==
  ASSUME NEW cores, NEW after, \A c \in Collectors : Knows(cores[c], after[c]),
         NEW w \in Workers, NEW root, Seen(cores, w, root)
  PROVE  Seen(after, w, root)
BY KnowsReached, CollectorsAssumption DEF Attached, Seen

LEMMA WalkKept ==
  ASSUME NEW cores, NEW after, \A c \in Collectors : Knows(cores[c], after[c]),
         NEW w \in Workers, NEW s, WalkInv(cores, w, s)
  PROVE  WalkInv(after, w, s)
BY SeenKept DEF FrameInv, WalkInv

LEMMA WalkPushed ==
  ASSUME NEW cores, NEW w, NEW s, WalkInv(cores, w, s), NEW f \in Frames, FrameInv(cores, w, f)
  PROVE  WalkInv(cores, w, Append(s, f))
<1>1. s \in Seq(Frames)
  BY DEF WalkInv
<1>2. PICK n \in Nat : n = Len(s)
  BY <1>1
<1>3. PICK r \in Seq(Frames) : r = Append(s, f)
  <2>1. Append(s, f) \in Seq(Frames)
    BY <1>1
  <2> QED BY <2>1
<1>4. Len(r) = n + 1 /\ r[n + 1] = f /\ \A i \in 1 .. n : r[i] = s[i]
  BY <1>1, <1>2, <1>3
<1>5. \A i \in 1 .. Len(r) : FrameInv(cores, w, r[i])
  BY <1>2, <1>4 DEF WalkInv
<1> QED BY <1>3, <1>5 DEF WalkInv

LEMMA WalkCut ==
  ASSUME NEW cores, NEW w, NEW s, WalkInv(cores, w, s), NEW n \in Nat, n < Len(s)
  PROVE  WalkInv(cores, w, SubSeq(s, 1, n))
<1>1. s \in Seq(Frames) /\ Len(s) \in Nat
  BY DEF WalkInv
<1>2. PICK r \in Seq(Frames) : r = SubSeq(s, 1, n)
  <2>1. SubSeq(s, 1, n) \in Seq(Frames)
    BY <1>1
  <2> QED BY <2>1
<1>3. Len(r) = n /\ \A i \in 1 .. n : r[i] = s[i]
  BY <1>1, <1>2
<1>4. \A i \in 1 .. n : FrameInv(cores, w, r[i])
  BY <1>1, <1>3 DEF WalkInv
<1> QED BY <1>2, <1>3, <1>4 DEF WalkInv

LEMMA WalkReplaced ==
  ASSUME NEW cores, NEW w, NEW s, WalkInv(cores, w, s), s # <<>>, NEW f \in Frames,
         FrameInv(cores, w, f)
  PROVE  WalkInv(cores, w, Append(Front(s), f))
<1>1. s \in Seq(Frames) /\ Len(s) \in Nat \ {0}
  BY DEF WalkInv
<1>2. PICK n \in Nat : n = Len(s) - 1
  BY <1>1
<1>3. WalkInv(cores, w, SubSeq(s, 1, n)) /\ Front(s) = SubSeq(s, 1, n)
  BY <1>1, <1>2, WalkCut DEF Front
<1>4. PICK r : r = Front(s)
  OBVIOUS
<1>5. WalkInv(cores, w, Append(r, f))
  BY <1>3, <1>4, WalkPushed
<1> QED BY <1>4, <1>5

-----------------------------------------------------------------------------
(* The steps of a render.                                                  *)

LEMMA TopFacts ==
  ASSUME CoverInv, NEW w \in Workers, walk[w] # <<>>
  PROVE  Top(w) \in Frames /\ FrameInv(core, w, Top(w))
<1>1. PICK s \in Seq(Frames) : s = walk[w]
  BY DEF CoverInv, WalkInv
<1>2. WalkInv(core, w, s) /\ s # <<>> /\ Len(s) \in Nat /\ Len(s) # 0
  BY <1>1, EmptySeq DEF CoverInv
<1>3. Top(w) = s[Len(s)] /\ Len(s) \in 1 .. Len(s)
  BY <1>1, <1>2 DEF Top, Last
<1> QED BY <1>2, <1>3 DEF WalkInv

LEMMA CoverAssembled ==
  ASSUME CoverInv, CoresInv', CoresKnow, NEW w \in Workers, NEW s,
         walk' = [walk EXCEPT ![w] = s], WalkInv(core', w, s)
  PROVE  CoverInv'
<1>1. /\ DOMAIN walk' = Workers /\ walk'[w] = s
      /\ \A v \in Workers : v # w => walk'[v] = walk[v]
  BY DEF CoverInv
<1>2. \A v \in Workers : WalkInv(core', v, walk[v])
  BY WalkKept DEF CoverInv, CoresKnow
<1> QED BY <1>1, <1>2 DEF CoverInv

LEMMA PushStep ==
  ASSUME CoverInv, CoresInv', CoresKnow, NEW w \in Workers, NEW f \in Frames,
         FrameInv(core', w, f), PushBody(w, f)
  PROVE  CoverInv'
<1>1. PICK s : s = walk[w]
  OBVIOUS
<1>2. WalkInv(core', w, s)
  BY <1>1, WalkKept DEF CoverInv, CoresKnow
<1>3. WalkInv(core', w, Append(s, f))
  BY <1>1, <1>2, WalkPushed
<1>4. walk' = [walk EXCEPT ![w] = Append(s, f)]
  BY <1>1 DEF PushBody
<1> QED BY <1>3, <1>4, CoverAssembled

LEMMA ReplaceStep ==
  ASSUME CoverInv, CoresInv', CoresKnow, NEW w \in Workers, NEW f \in Frames,
         FrameInv(core', w, f), ReplaceTop(w, f), walk[w] # <<>>
  PROVE  CoverInv'
<1>1. PICK s : s = walk[w]
  OBVIOUS
<1>2. WalkInv(core', w, s)
  BY <1>1, WalkKept DEF CoverInv, CoresKnow
<1>3. WalkInv(core', w, Append(Front(s), f))
  BY <1>1, <1>2, WalkReplaced
<1>4. walk' = [walk EXCEPT ![w] = Append(Front(s), f)]
  BY <1>1 DEF ReplaceTop
<1> QED BY <1>3, <1>4, CoverAssembled

LEMMA CutStep ==
  ASSUME CoverInv, UNCHANGED core, NEW w \in Workers,
         \/ Fail(w)
         \/ walk[w] # <<>> /\ PopBody(w)
  PROVE  CoverInv'
<1>1. PICK s \in Seq(Frames) : s = walk[w]
  BY DEF CoverInv, WalkInv
<1>2. WalkInv(core, w, s) /\ core' = core /\ CoresInv' /\ CoresKnow
  BY <1>1 DEF CoverInv, CoresInv, CoresKnow, Knows
<1>3. PICK n \in Nat : n < Len(s) /\ walk' = [walk EXCEPT ![w] = SubSeq(s, 1, n)]
  <2>1. CASE Fail(w)
    <3>1. PICK n \in 0 .. Len(walk[w]) - 1 : walk' = [walk EXCEPT ![w] = SubSeq(walk[w], 1, n)]
      BY <2>1 DEF Fail
    <3>2. n \in Nat /\ n < Len(s)
      BY <1>1, <3>1
    <3> QED BY <1>1, <3>1, <3>2
  <2>2. CASE walk[w] # <<>> /\ PopBody(w)
    <3>1. Len(s) \in Nat /\ Len(s) # 0
      BY <1>1, <2>2, EmptySeq
    <3>2. Len(s) - 1 \in Nat /\ Len(s) - 1 < Len(s)
      BY <3>1
    <3>3. walk' = [walk EXCEPT ![w] = SubSeq(s, 1, Len(s) - 1)]
      BY <1>1, <2>2 DEF PopBody, Front
    <3> QED BY <3>2, <3>3
  <2> QED BY <2>1, <2>2
<1>4. WalkInv(core', w, SubSeq(s, 1, n))
  BY <1>2, <1>3, WalkCut
<1> QED BY <1>2, <1>3, <1>4, CoverAssembled

(* Nothing is entered by what opens the body, or it is still to be seeded.   *)
LEMMA OpenedKeeps ==
  ASSUME CoverInv, CoresInv', CoresKnow, NEW w \in Workers, NEW f \in Frames, PushBody(w, f),
         \/ f.pending \in Seq(Templates) /\ Entered(f) \subseteq ToSet(f.pending)
         \/ Entered(f) = {}
  PROVE  CoverInv'
<1>1. FrameInv(core', w, f)
  BY DEF FrameInv
<1> QED BY <1>1, PushStep

LEMMA CoverStart == ASSUME CoverInv, NEW w \in Workers, StartRender(w) PROVE CoverInv'
<1> DEFINE f == Opened("render", Last(Chain), Chain)
<1>1. PushBody(w, f) /\ UNCHANGED core
  BY DEF StartRender
<1>2. Last(Chain) \in Templates /\ Chain \in Seq(Templates \cup Nodes \cup CacheKeys)
  <2>1. Len(Chain) \in Nat /\ Len(Chain) # 0
    BY RendersAssumption, EmptySeq
  <2> QED BY <2>1, RendersAssumption DEF Last
<1>3. f \in Frames /\ f.by = "render" /\ f.pending = Chain
  BY <1>2 DEF Opened, Frames, Constructs
<1>4. CoresInv' /\ CoresKnow
  BY <1>1 DEF CoverInv, CoresInv, CoresKnow, Knows
<1> HIDE DEF f
<1>5. Entered(f) = ToSet(Chain)
  BY <1>3 DEF Entered
<1> QED BY <1>1, <1>3, <1>4, <1>5, RendersAssumption, OpenedKeeps

LEMMA CoverSeedNext == ASSUME CoverInv, NEW w \in Workers, SeedNext(w) PROVE CoverInv'
<1>1. PICK f \in Frames : f = Top(w) /\ FrameInv(core, w, f)
  BY TopFacts DEF SeedNext
<1>2. PICK p \in Seq(Templates \cup Nodes \cup CacheKeys) : p = f.pending
  BY <1>1 DEF Frames
<1>3. PICK t \in Templates : t = Head(p)
  BY <1>1, <1>2 DEF SeedNext
<1>4. p # <<>> /\ walk[w] # <<>>
  BY <1>1, <1>2 DEF SeedNext
<1>5. CoresInv' /\ CoresKnow /\ Seen(core', w, t)
  <2>1. Record(w, [c \in Collectors |-> SeedTemplate(core[c], t)])
    BY <1>1, <1>2, <1>3 DEF SeedNext
  <2> QED BY <2>1, SeedTemplateKeeps DEF CoverInv
<1>6. PICK q \in Seq(Templates \cup Nodes \cup CacheKeys) : q = Tail(p)
  <2>1. Tail(p) \in Seq(Templates \cup Nodes \cup CacheKeys)
    BY <1>4
  <2> QED BY <2>1
<1> DEFINE g == [f EXCEPT !.pending = q]
<1>7. g \in Frames /\ g.pending = q /\ g.body = f.body /\ g.by = f.by
  BY DEF Frames
<1>8. ReplaceTop(w, g)
  BY <1>1, <1>2, <1>6 DEF SeedNext
<1> HIDE DEF g
<1>9. Entered(g) = Entered(f)
  BY <1>7 DEF Entered
<1>10. ASSUME p \in Seq(Templates), NEW root \in ToSet(p)
       PROVE  root = t \/ (q \in Seq(Templates) /\ root \in ToSet(q))
  <2>1. q \in Seq(Templates)
    BY <1>4, <1>6, <1>10
  <2>2. PICK n \in Nat : /\ Len(p) = n + 1 /\ Len(q) = n /\ p[1] = t
                         /\ \A i \in 1 .. n : q[i] = p[i + 1]
    <3>1. Len(p) \in Nat /\ Len(p) # 0
      BY <1>4, EmptySeq
    <3>2. PICK n \in Nat : n = Len(p) - 1
      BY <3>1
    <3>3. Len(q) = n /\ \A i \in 1 .. n : q[i] = p[i + 1]
      BY <1>4, <1>6, <3>2, HeadTailProperties
    <3> QED BY <1>3, <1>4, <3>1, <3>2, <3>3
  <2>3. PICK i \in 1 .. (n + 1) : root = p[i]
    BY <1>10, <2>2 DEF ToSet
  <2>4. CASE i = 1
    BY <2>2, <2>3, <2>4
  <2>5. CASE i # 1
    <3>1. i - 1 \in 1 .. n /\ root = q[i - 1]
      BY <2>2, <2>3, <2>5
    <3> QED BY <2>1, <2>2, <3>1 DEF ToSet
  <2> QED BY <2>4, <2>5
<1>11. ASSUME NEW root, Seen(core, w, root) PROVE Seen(core', w, root)
  BY <1>5, <1>11, SeenKept DEF CoresKnow
<1>12. FrameInv(core', w, g)
  BY <1>1, <1>2, <1>5, <1>7, <1>9, <1>10, <1>11 DEF FrameInv
<1> QED BY <1>4, <1>5, <1>7, <1>8, <1>12, ReplaceStep

LEMMA CoverRecorded ==
  ASSUME CoverInv, NEW w \in Workers, Statement(w) \/ TakeArm(w)
  PROVE  CoverInv'
<1>1. UNCHANGED walk /\ \E n, kind : Recorded(w, n, kind)
  BY DEF Statement, TakeArm
<1>2. CoresInv' /\ CoresKnow
  BY <1>1, RecordedKeeps DEF CoverInv
<1> QED BY <1>1, <1>2, WalkKept DEF CoverInv, CoresKnow

(* A body opened over the one that runs, and what is recorded first. *)
LEMMA CoverOpened ==
  ASSUME CoverInv, NEW w \in Workers,
         \/ Include(w) \/ Embed(w) \/ RenderBlock(w) \/ CallBlockOfOther(w)
         \/ CallMacro(w) \/ ReachCache(w)
  PROVE  CoverInv'
<1>1. ASSUME NEW n, NEW kind, Recorded(w, n, kind) PROVE CoresInv' /\ CoresKnow
  BY <1>1, RecordedKeeps DEF CoverInv
<1>2. <<>> \in Seq(Templates \cup Nodes \cup CacheKeys)
  OBVIOUS
<1>3. CASE Include(w)
  <2> DEFINE f == Opened("include", Partial, <<Partial>>)
  <2>1. PushBody(w, f) /\ CoresInv' /\ CoresKnow
    BY <1>1, <1>3 DEF Include
  <2>2. <<Partial>> \in Seq(Templates) /\ Partial \in ToSet(<<Partial>>)
    BY RendersAssumption DEF ToSet
  <2>3. f \in Frames /\ f.by = "include" /\ f.pending = <<Partial>>
    <3>1. <<Partial>> \in Seq(Templates \cup Nodes \cup CacheKeys)
      BY RendersAssumption
    <3>2. f = [by |-> "include", body |-> Partial, pending |-> <<Partial>>, key |-> NoKey]
      BY DEF Opened
    <3> HIDE DEF f
    <3> QED BY <3>1, <3>2, RendersAssumption DEF Frames, Constructs
  <2> HIDE DEF f
  <2>4. Entered(f) = {Partial}
    BY <2>3 DEF Entered
  <2> QED BY <2>1, <2>2, <2>3, <2>4, OpenedKeeps
<1>4. ASSUME NEW b \in Templates \cup Nodes, NEW by \in {"embed", "block", "call"},
             PushBody(w, Opened(by, b, <<>>)), CoresInv', CoresKnow
      PROVE  CoverInv'
  <2> DEFINE f == Opened(by, b, <<>>)
  <2>1. f \in Frames /\ f.by = by
    <3>1. f = [by |-> by, body |-> b, pending |-> <<>>, key |-> NoKey]
      BY DEF Opened
    <3> HIDE DEF f
    <3> QED BY <1>2, <3>1 DEF Frames, Constructs
  <2> HIDE DEF f
  <2>2. Entered(f) = {}
    BY <2>1 DEF Entered
  <2> QED BY <1>4, <2>1, <2>2, OpenedKeeps DEF f
<1>5. CASE Embed(w)
  <2>1. PushBody(w, Opened("embed", Embedded, <<>>)) /\ CoresInv' /\ CoresKnow
    BY <1>1, <1>5 DEF Embed
  <2> QED BY <1>4, <2>1, RendersAssumption
<1>6. CASE RenderBlock(w) \/ CallBlockOfOther(w)
  <2>1. PICK b \in Blocks : EnterBlock(w, b)
    BY <1>6 DEF RenderBlock, CallBlockOfOther
  <2>2. b \in Nodes /\ PushBody(w, Opened("block", b, <<>>)) /\ CoresInv' /\ CoresKnow
    BY <1>1, <2>1 DEF EnterBlock, Blocks
  <2> QED BY <1>4, <2>2
<1>7. CASE CallMacro(w)
  <2>1. PICK d \in Nodes : PushBody(w, Opened("call", d, <<>>)) /\ UNCHANGED core
    BY <1>7 DEF CallMacro
  <2>2. CoresInv' /\ CoresKnow
    BY <2>1 DEF CoverInv, CoresInv, CoresKnow, Knows
  <2> QED BY <1>4, <2>1, <2>2
<1>8. CASE ReachCache(w)
  <2>1. PICK n \in Nodes, key \in CacheKeys :
          Recorded(w, n, "cache") /\ PushBody(w, [Opened("cache", n, <<key>>) EXCEPT !.key = key])
    BY <1>8 DEF ReachCache, Here
  <2> DEFINE f == [Opened("cache", n, <<key>>) EXCEPT !.key = key]
  <2>2. f \in Frames /\ f.by = "cache"
    <3>1. <<key>> \in Seq(Templates \cup Nodes \cup CacheKeys)
      OBVIOUS
    <3>2. f = [by |-> "cache", body |-> n, pending |-> <<key>>, key |-> key]
      BY DEF Opened
    <3> HIDE DEF f
    <3> QED BY <3>1, <3>2 DEF Frames, Constructs
  <2>3. CoresInv' /\ CoresKnow
    BY <1>1, <2>1
  <2> HIDE DEF f
  <2>4. Entered(f) = {}
    BY <2>2 DEF Entered
  <2> QED BY <2>1, <2>2, <2>3, <2>4, OpenedKeeps DEF f
<1> QED BY <1>3, <1>5, <1>6, <1>7, <1>8

LEMMA CoverInvoked == ASSUME CoverInv, NEW w \in Workers, SeedInvoked(w) PROVE CoverInv'
<1>1. walk[w] # <<>> /\ Top(w).body \in Nodes /\ Kind[Top(w).body] = "defaults"
  BY DEF SeedInvoked, Running
<1>2. PICK m \in Nodes : m = Body[Top(w).body]
  BY <1>1, ForestAssumption
<1>3. CoresInv' /\ CoresKnow /\ Seen(core', w, m)
  <2>1. Record(w, [c \in Collectors |-> SeedMacro(core[c], m)])
    BY <1>2 DEF SeedInvoked
  <2> QED BY <2>1, SeedMacroKeeps DEF CoverInv
<1> DEFINE f == Opened("macro", m, <<m>>)
<1>4. f \in Frames /\ f.body = m /\ f.by = "macro"
  <2>1. <<m>> \in Seq(Templates \cup Nodes \cup CacheKeys)
    OBVIOUS
  <2>2. f = [by |-> "macro", body |-> m, pending |-> <<m>>, key |-> NoKey]
    BY DEF Opened
  <2> HIDE DEF f
  <2> QED BY <2>1, <2>2 DEF Frames, Constructs
<1>5. ReplaceTop(w, f)
  BY <1>2 DEF SeedInvoked
<1> HIDE DEF f
<1>6. FrameInv(core', w, f)
  BY <1>3, <1>4 DEF FrameInv, Entered
<1> QED BY <1>1, <1>3, <1>4, <1>5, <1>6, ReplaceStep

(* A macro to record and a key to look up are no templates to seed. *)
LEMMA SettledKeeps ==
  ASSUME CoverInv, CoresInv', CoresKnow, NEW w \in Workers, walk[w] # <<>>,
         Top(w).pending # <<>>, Head(Top(w).pending) \in Nodes \cup CacheKeys,
         ReplaceTop(w, [Top(w) EXCEPT !.pending = <<>>])
  PROVE  CoverInv'
<1>1. PICK f \in Frames : f = Top(w) /\ FrameInv(core, w, f)
  BY TopFacts
<1>2. PICK p \in Seq(Templates \cup Nodes \cup CacheKeys) : p = f.pending
  BY <1>1 DEF Frames
<1>3. p \notin Seq(Templates)
  <2>1. p # <<>> /\ Head(p) \notin Templates
    BY <1>1, <1>2, ForestAssumption, RendersAssumption
  <2> QED BY <2>1
<1> DEFINE g == [f EXCEPT !.pending = <<>>]
<1>4. g \in Frames /\ g.body = f.body /\ g.by = f.by
  <2>1. <<>> \in Seq(Templates \cup Nodes \cup CacheKeys)
    OBVIOUS
  <2> QED BY <2>1 DEF Frames
<1>5. ReplaceTop(w, g)
  BY <1>1
<1> HIDE DEF g
<1>6. FrameInv(core', w, g)
  <2>1. Entered(g) = Entered(f)
    BY <1>4 DEF Entered
  <2>2. \A root \in Entered(f) : Seen(core, w, root)
    BY <1>1, <1>2, <1>3 DEF FrameInv
  <2>3. \A root : Seen(core, w, root) => Seen(core', w, root)
    BY SeenKept DEF CoresKnow
  <2> QED BY <2>1, <2>2, <2>3 DEF FrameInv
<1> QED BY <1>4, <1>5, <1>6, ReplaceStep

LEMMA CoverEntered == ASSUME CoverInv, NEW w \in Workers, EnterMacro(w) PROVE CoverInv'
<1>1. CoresInv' /\ CoresKnow
  BY RecordedKeeps DEF EnterMacro, CoverInv
<1> QED BY <1>1, SettledKeeps DEF EnterMacro

LEMMA CoverLookup == ASSUME CoverInv, NEW w \in Workers, Lookup(w) PROVE CoverInv'
<1>1. UNCHANGED core /\ CoresInv' /\ CoresKnow
  BY DEF Lookup, CoverInv, CoresInv, CoresKnow, Knows
<1>2. CASE PopBody(w)
  BY <1>1, <1>2, CutStep DEF Lookup
<1>3. CASE ReplaceTop(w, [Top(w) EXCEPT !.pending = <<>>])
  BY <1>1, <1>3, SettledKeeps DEF Lookup
<1> QED BY <1>2, <1>3 DEF Lookup

LEMMA CoverStep == CoverInv /\ [Next]_vars => CoverInv'
<1> SUFFICES ASSUME CoverInv, [Next]_vars PROVE CoverInv'
  OBVIOUS
<1>1. ASSUME NEW w \in Workers, Store(w) \/ Leave(w) PROVE walk[w] # <<>> /\ PopBody(w) /\ UNCHANGED core
  BY <1>1 DEF Store, Leave, Running
<1>2. ASSUME NEW w \in Workers, Fail(w) PROVE UNCHANGED core
  BY <1>2 DEF Fail
<1>3. ASSUME Host \/ UNCHANGED vars PROVE CoverInv'
  <2>1. UNCHANGED <<core, walk>>
    BY <1>3 DEF Host, vars
  <2> QED BY <2>1 DEF CoverInv, CoresInv
<1> QED
  BY <1>1, <1>2, <1>3, CoverStart, CoverSeedNext, CoverRecorded, CoverOpened, CoverInvoked,
     CoverEntered, CoverLookup, CutStep
  DEF Next

LEMMA CoverStarts == Init => CoverInv
<1> SUFFICES ASSUME Init PROVE CoverInv
  OBVIOUS
<1>1. core = [c \in Collectors |-> NewCore] /\ CoreInv(NewCore)
  BY NewCoreCounts DEF Init, CoverageInit, NewCore, CoreInv
<1>2. <<>> \in Seq(Frames) /\ Len(<<>>) = 0
  OBVIOUS
<1>3. \A w \in Workers : WalkInv(core, w, <<>>)
  BY <1>2 DEF WalkInv
<1> QED BY <1>1, <1>3 DEF Init, CoverInv, CoresInv

(* What an open body's construct enters is in the report, with its source.   *)
LEMMA EnteredIsSeen ==
  ASSUME CoverInv, NEW w \in Workers, NEW i \in DOMAIN walk[w], walk[w][i].pending = <<>>,
         NEW root \in Entered(walk[w][i]), NEW c \in {w, Shared}
  PROVE  Reached(core[c], root)
<1>1. WalkInv(core, w, walk[w]) /\ walk[w] \in Seq(Frames)
  BY DEF CoverInv, WalkInv
<1>2. FrameInv(core, w, walk[w][i])
  BY <1>1 DEF WalkInv
<1>3. root \notin ToSet(<<>>)
  BY DEF ToSet
<1> QED BY <1>2, <1>3 DEF FrameInv, Seen, Attached

(* "An unreached region reports 0 rather than being absent": whatever body    *)
(* runs innermost, every region of the chain, the partials and the macros     *)
(* that the open bodies entered is in the report of the worker's collector    *)
(* and in the shared one, whichever render seeded it first and by whichever   *)
(* of the two seeds (SeedTemplate, SeedMacro).                                *)
THEOREM RunningIsMeasured == Spec => []EnteredIsMeasured
<1>1. CoverInv => EnteredIsMeasured
  BY EnteredIsSeen DEF EnteredIsMeasured, Reached
<1> QED BY <1>1, CoverStarts, CoverStep, PTL DEF Spec

(* A report never shows a region at zero without the source to annotate it,   *)
(* and has the source of whatever was entered: the early return for a         *)
(* template that is seeded whole loses no source, nor does a macro imported   *)
(* under another entry first.                                                 *)
THEOREM ReportsHaveSources == Spec => []SourcesAreThere
<1>1. CoverInv => SourcesAreThere
  BY EnteredIsSeen DEF SourcesAreThere, CoverInv, CoresInv, CoreInv, Reached
<1> QED BY <1>1, CoverStarts, CoverStep, PTL DEF Spec

-----------------------------------------------------------------------------
(* Merged collectors show what the shared one does.                        *)

(* d is c with some regions and sources more, and some counters raised by one. *)
Learns(c, d, regions, from, raised) ==
  /\ DOMAIN d.hits = DOMAIN c.hits \cup regions
  /\ d.sources = c.sources \cup from
  /\ \A r : Counter(d, r) = Counter(c, r) + (IF r \in raised THEN 1 ELSE 0)

LEMMA CounterIsNat == ASSUME NEW c, Counting(c), NEW r PROVE Counter(c, r) \in Nat
BY DEF Counting, Counter

LEMMA SeededCounts ==
  ASSUME NEW c, Counting(c), NEW regions, NEW r
  PROVE  Counter(Seeded(c, regions), r) = Counter(c, r)
<1> DEFINE d == Seeded(c, regions)
<1>1. d.hits = [x \in DOMAIN c.hits \cup regions |-> IF x \in DOMAIN c.hits THEN c.hits[x] ELSE 0]
  BY DEF Seeded, Counting
<1> HIDE DEF d
<1>2. Counter(d, r) = Counter(c, r)
  BY <1>1 DEF Counter
<1> QED BY <1>2 DEF d

(* Whatever was seeded before, after a call a core knows what it knew and     *)
(* what the call is about: the memos are not seen in the report.              *)
LEMMA CallsLearn ==
  ASSUME NEW c, CoreInv(c)
  PROVE  /\ \A t \in Templates : Learns(c, SeedTemplate(c, t), Walked[t], {t}, {})
         /\ \A m \in Nodes : Learns(c, SeedMacro(c, m), Walked[m], {HomeOf[m]}, {})
         /\ \A region : Learns(c, Hit(c, region), {region}, {}, {region})
<1>0. Counting(c)
  BY DEF CoreInv
<1>1. ASSUME NEW k, Counting(k), NEW R
      PROVE  DOMAIN Seeded(k, R).hits = DOMAIN k.hits \cup R /\ Seeded(k, R).sources = k.sources
  BY <1>1 DEF Seeded, Counting
<1>2. ASSUME NEW t \in Templates PROVE Learns(c, SeedTemplate(c, t), Walked[t], {t}, {})
  <2> DEFINE d == SeedTemplate(c, t)
             k == [c EXCEPT !.seededFull = @ \cup {t}, !.sources = @ \cup {t}]
  <2>1. CoreInv(d) /\ Knows(c, d) /\ Reached(d, t)
    BY SeedTemplateReaches
  <2>2. Counting(k) /\ k.hits = c.hits /\ k.sources = c.sources \cup {t}
    BY <1>0 DEF Counting
  <2>3. d = c \/ d = Seeded(k, Walked[t])
    BY DEF SeedTemplate
  <2> HIDE DEF d, k
  <2>4. DOMAIN d.hits \subseteq DOMAIN c.hits \cup Walked[t] /\ d.sources \subseteq c.sources \cup {t}
    BY <1>1, <2>2, <2>3
  <2>5. \A r : Counter(d, r) = Counter(c, r)
    BY <1>0, <2>2, <2>3, SeededCounts DEF Counter
  <2>6. DOMAIN d.hits = DOMAIN c.hits \cup Walked[t] /\ d.sources = c.sources \cup {t}
    BY <2>1, <2>4 DEF Knows, Reached, Home
  <2>7. Learns(c, d, Walked[t], {t}, {})
    BY <1>0, <2>5, <2>6, CounterIsNat DEF Learns
  <2> QED BY <2>7 DEF d
<1>3. ASSUME NEW m \in Nodes PROVE Learns(c, SeedMacro(c, m), Walked[m], {HomeOf[m]}, {})
  <2> DEFINE d == SeedMacro(c, m)
             known == [c EXCEPT !.sources = @ \cup {HomeOf[m]}]
             k == [known EXCEPT !.seededMacro = @ \cup {m}]
  <2>1. CoreInv(d) /\ Knows(c, d) /\ Reached(d, m) /\ Home(m) = HomeOf[m]
    BY SeedMacroReaches, ForestAssumption DEF Home
  <2>2. /\ Counting(k) /\ k.hits = c.hits /\ k.sources = c.sources \cup {HomeOf[m]}
        /\ known.hits = c.hits /\ known.sources = c.sources \cup {HomeOf[m]}
    BY <1>0 DEF Counting
  <2>3. d = c \/ d = known \/ d = Seeded(k, Walked[m])
    BY DEF SeedMacro
  <2> HIDE DEF d, k, known
  <2>4. /\ DOMAIN d.hits \subseteq DOMAIN c.hits \cup Walked[m]
        /\ d.sources \subseteq c.sources \cup {HomeOf[m]}
    BY <1>1, <2>2, <2>3
  <2>5. \A r : Counter(d, r) = Counter(c, r)
    BY <1>0, <2>2, <2>3, SeededCounts DEF Counter
  <2>6. DOMAIN d.hits = DOMAIN c.hits \cup Walked[m] /\ d.sources = c.sources \cup {HomeOf[m]}
    BY <2>1, <2>4 DEF Knows, Reached
  <2>7. Learns(c, d, Walked[m], {HomeOf[m]}, {})
    BY <1>0, <2>5, <2>6, CounterIsNat DEF Learns
  <2> QED BY <2>7 DEF d
<1>4. ASSUME NEW region PROVE Learns(c, Hit(c, region), {region}, {}, {region})
  <2> DEFINE k == Seeded(c, {region})
             d == Hit(c, region)
  <2>1. Counting(k) /\ DOMAIN k.hits = DOMAIN c.hits \cup {region} /\ k.sources = c.sources
    BY <1>0, <1>1, SeededGrows
  <2>2. d = [k EXCEPT !.hits[region] = @ + 1]
    BY DEF Hit
  <2>3. \A r : Counter(k, r) = Counter(c, r)
    BY <1>0, SeededCounts
  <2> HIDE DEF k, d
  <2>4. /\ DOMAIN d.hits = DOMAIN k.hits /\ d.sources = k.sources
        /\ \A r \in DOMAIN k.hits : d.hits[r] = k.hits[r] + (IF r = region THEN 1 ELSE 0)
    BY <2>1, <2>2 DEF Counting
  <2>5. \A r : Counter(d, r) = Counter(k, r) + (IF r \in {region} THEN 1 ELSE 0)
    BY <2>1, <2>4 DEF Counter
  <2>6. Learns(c, d, {region}, {}, {region})
    BY <2>1, <2>3, <2>4, <2>5 DEF Learns
  <2> QED BY <2>6 DEF d
<1> QED BY <1>2, <1>3, <1>4

MergedShowsShared ==
  /\ \A r : (\E c \in Workers : r \in DOMAIN core[c].hits) <=> r \in DOMAIN core[Shared].hits
  /\ \A t : (\E c \in Workers : t \in core[c].sources) <=> t \in core[Shared].sources
  /\ \A r : SumFunctionOnSet([c \in Workers |-> Counter(core[c], r)], Workers)
             = Counter(core[Shared], r)

LEMMA LearnTogether ==
  ASSUME CoresInv, MergedShowsShared, NEW w \in Workers, NEW after, Record(w, after),
         NEW regions, NEW from, NEW raised,
         \A c \in Attached(w) : Learns(core[c], after[c], regions, from, raised)
  PROVE  MergedShowsShared'
<1>1. w \in Collectors /\ Shared \in Collectors /\ w # Shared /\ Shared \notin Workers
  BY CollectorsAssumption
<1>2. /\ Learns(core[w], core'[w], regions, from, raised)
      /\ Learns(core[Shared], core'[Shared], regions, from, raised)
      /\ \A v \in Workers : v # w => core'[v] = core[v]
  BY <1>1, CollectorsAssumption DEF Record, CoresInv, Attached
<1>3. ASSUME NEW r
      PROVE  (\E c \in Workers : r \in DOMAIN core'[c].hits) <=> r \in DOMAIN core'[Shared].hits
  BY <1>2 DEF Learns, MergedShowsShared
<1>4. ASSUME NEW t
      PROVE  (\E c \in Workers : t \in core'[c].sources) <=> t \in core'[Shared].sources
  BY <1>2 DEF Learns, MergedShowsShared
<1>5. ASSUME NEW r
      PROVE  SumFunctionOnSet([c \in Workers |-> Counter(core'[c], r)], Workers)
               = Counter(core'[Shared], r)
  <2> DEFINE n == IF r \in raised THEN 1 ELSE 0
             old == [c \in Workers |-> Counter(core[c], r)]
             more == [c \in Workers |-> IF c = w THEN n ELSE 0]
             new == [c \in Workers |-> Counter(core'[c], r)]
  <2>1. old \in [Workers -> Nat]
    BY CollectorsAssumption, CounterIsNat DEF CoresInv, CoreInv
  <2>2. more \in [Workers -> Nat] /\ n \in Nat
    OBVIOUS
  <2>3. \A c \in Workers : new[c] = old[c] + more[c]
    BY <1>2, <2>1 DEF Learns
  <2>4. new \in [Workers -> Nat]
    BY <2>1, <2>2, <2>3
  <2>5. SumFunctionOnSet(more, Workers) = n
    <3> HIDE DEF n
    <3> QED BY <2>2, CollectorsAssumption, SumOfOne
  <2>6. SumFunctionOnSet(old, Workers) = Counter(core[Shared], r)
    BY DEF MergedShowsShared
  <2>7. Counter(core'[Shared], r) = Counter(core[Shared], r) + n
    BY <1>2 DEF Learns
  <2> HIDE DEF old, more, new, n
  <2>8. SumFunctionOnSet(new, Workers) = SumFunctionOnSet(old, Workers) + SumFunctionOnSet(more, Workers)
    BY <2>1, <2>2, <2>3, <2>4, CollectorsAssumption, SumAdds
  <2> QED BY <2>5, <2>6, <2>7, <2>8 DEF new
<1> QED BY <1>3, <1>4, <1>5 DEF MergedShowsShared

LEMMA RecordedTogether ==
  ASSUME CoresInv, MergedShowsShared, NEW w \in Workers, NEW n, NEW kind, Recorded(w, n, kind)
  PROVE  MergedShowsShared'
<1> DEFINE region == [node |-> n, kind |-> kind]
           after == [c \in Collectors |-> Hit(core[c], region)]
<1>1. Record(w, after) /\ Attached(w) \subseteq Collectors
  BY CollectorsAssumption DEF Recorded, Attached
<1>2. \A c \in Attached(w) : Learns(core[c], after[c], {region}, {}, {region})
  <2> HIDE DEF region
  <2> QED BY <1>1, CallsLearn DEF CoresInv
<1> HIDE DEF after, region
<1> QED BY <1>1, <1>2, LearnTogether

LEMMA MergeStep ==
  ASSUME CoverInv, MergedShowsShared, [Next]_vars
  PROVE  MergedShowsShared'
<1>0. \A w \in Workers : Attached(w) \subseteq Collectors
  BY CollectorsAssumption DEF Attached
<1>1. CASE UNCHANGED core
  BY <1>1 DEF MergedShowsShared
<1>2. ASSUME NEW w \in Workers, SeedNext(w) PROVE MergedShowsShared'
  <2>1. PICK t \in Templates : t = Head(Top(w).pending)
    BY <1>2 DEF SeedNext
  <2> DEFINE after == [c \in Collectors |-> SeedTemplate(core[c], t)]
  <2>2. Record(w, after)
    BY <1>2, <2>1 DEF SeedNext
  <2>3. \A c \in Attached(w) : Learns(core[c], after[c], Walked[t], {t}, {})
    BY <1>0, CallsLearn DEF CoverInv, CoresInv
  <2> HIDE DEF after
  <2> QED BY <2>2, <2>3, LearnTogether DEF CoverInv
<1>3. ASSUME NEW w \in Workers, SeedInvoked(w) PROVE MergedShowsShared'
  <2>1. PICK m \in Nodes : m = Body[Top(w).body]
    BY <1>3, ForestAssumption DEF SeedInvoked
  <2> DEFINE after == [c \in Collectors |-> SeedMacro(core[c], m)]
  <2>2. Record(w, after)
    BY <1>3, <2>1 DEF SeedInvoked
  <2>3. \A c \in Attached(w) : Learns(core[c], after[c], Walked[m], {HomeOf[m]}, {})
    BY <1>0, CallsLearn DEF CoverInv, CoresInv
  <2> HIDE DEF after
  <2> QED BY <2>2, <2>3, LearnTogether DEF CoverInv
<1>4. ASSUME NEW w \in Workers,
             \/ Statement(w) \/ TakeArm(w) \/ Include(w) \/ Embed(w) \/ RenderBlock(w)
             \/ CallBlockOfOther(w) \/ EnterMacro(w) \/ ReachCache(w)
      PROVE  \E n, kind : Recorded(w, n, kind)
  BY <1>4 DEF Statement, TakeArm, Include, Embed, RenderBlock, CallBlockOfOther, EnterBlock,
                        EnterMacro, ReachCache
<1>5. ASSUME NEW w \in Workers,
             \/ StartRender(w) \/ CallMacro(w) \/ Lookup(w) \/ Store(w) \/ Leave(w) \/ Fail(w)
      PROVE  UNCHANGED core
  BY <1>5 DEF StartRender, CallMacro, Lookup, Store, Leave, Fail
<1>6. ASSUME Host \/ UNCHANGED vars PROVE UNCHANGED core
  BY <1>6 DEF Host, vars
<1> QED BY <1>1, <1>2, <1>3, <1>4, <1>5, <1>6, RecordedTogether DEF Next, CoverInv

(* Collectors of their own, merged, show the regions, the counters and the   *)
(* sources that one shared collector does, in whatever order the goroutines  *)
(* seeded templates and macros and recorded what they reached (MergeReports). *)
THEOREM MergedReportsAgree == Spec => []MergedIsShared
<1>1. Init => MergedShowsShared
  <2> SUFFICES ASSUME Init PROVE MergedShowsShared
    OBVIOUS
  <2>1. \A c \in Collectors : core[c].hits = <<>> /\ core[c].sources = {}
    BY DEF Init, CoverageInit, NewCore
  <2>2. \A c \in Collectors : \A r : Counter(core[c], r) = 0
    BY <2>1 DEF Counter
  <2>3. ASSUME NEW r
        PROVE  SumFunctionOnSet([c \in Workers |-> Counter(core[c], r)], Workers) = 0
    <3> DEFINE f == [c \in Workers |-> Counter(core[c], r)]
    <3>1. f \in [Workers -> Nat] /\ \A c \in Workers : f[c] = 0
      BY <2>2, CollectorsAssumption
    <3> HIDE DEF f
    <3>2. SumFunctionOnSet(f, Workers) = 0
      BY <3>1, CollectorsAssumption, SumIsNat
    <3> QED BY <3>2 DEF f
  <2> QED BY <2>1, <2>2, <2>3, CollectorsAssumption DEF MergedShowsShared
<1>2. CoverInv /\ MergedShowsShared /\ [Next]_vars => MergedShowsShared'
  BY MergeStep
<1>3. ASSUME CoverInv, MergedShowsShared PROVE MergedIsShared
  <2>1. UNION {DOMAIN core[c].hits : c \in Workers} = DOMAIN core[Shared].hits
    BY <1>3 DEF MergedShowsShared
  <2>2. UNION {core[c].sources : c \in Workers} = core[Shared].sources
    BY <1>3 DEF MergedShowsShared
  <2>3. core[Shared].hits = [r \in DOMAIN core[Shared].hits |-> Counter(core[Shared], r)]
    BY <1>3, CollectorsAssumption DEF CoverInv, CoresInv, CoreInv, Counting, Counter
  <2>4. MergedReport(Workers).hits
          = [r \in DOMAIN core[Shared].hits |->
               SumFunctionOnSet([c \in Workers |-> Counter(core[c], r)], Workers)]
    BY <2>1 DEF MergedReport
  <2>5. MergedReport(Workers).hits = core[Shared].hits
    BY <1>3, <2>3, <2>4 DEF MergedShowsShared
  <2> QED BY <2>2, <2>5 DEF MergedReport, MergedIsShared
<1> QED BY <1>1, <1>2, <1>3, CoverStarts, CoverStep, PTL DEF Spec
=============================================================================
