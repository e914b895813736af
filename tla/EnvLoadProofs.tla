---------------------------- MODULE EnvLoadProofs ----------------------------
(* What a loading goroutine can rely on, whatever the others do meanwhile:   *)
(* the page it renders was prepared from the module its own load found, the  *)
(* compositions that are memoized follow the heads, and the verdict stored   *)
(* with a compiled unit is that of the modules stored as its witness.        *)
EXTENDS EnvLoad, SequenceTheorems, TLAPS

Loading(j) == j.at \in {"get", "read", "put", "look", "prepare"}
For(j, purposes) == Loading(j) /\ j.why \in purposes

(* A job that holds the unit's mu. *)
Verifying(j) == j.at = "member" \/ For(j, {"member"})
(* A job that has not yet published what it composes. *)
Composing(j) == j.at \in {"chain", "publish"} \/ For(j, {"parent", "import"})
(* A job whose composition is done. *)
Composed(j) == j.at \in {"body", "option"} \/ For(j, {"include", "option"})
(* A job that renders a page it has loaded. *)
Rooted(j) ==
  j.at \in {"lock", "compiled", "compose"} \/ Verifying(j) \/ Composing(j) \/ Composed(j)

(* Each template of the chain is the parent the one below it names. *)
Linked(chain) ==
  \A i \in 1..(Len(chain) - 1) : NameOf(chain[i+1]) = Parent[NameOf(chain[i])]
Ends(chain) == Parent[NameOf(chain[Len(chain)])] = None
ChainFrom(t, chain) == chain # <<>> /\ chain[1] = t /\ Linked(chain)

(* What the memos promise: each entry is of its name, a prepared template of  *)
(* its module, a memoized chain complete.                                    *)
MemoInv ==
  /\ \A n \in Names : cache[n] # None => parsed[cache[n]].name = n
  /\ \A n \in Names : prepared[n] # None =>
       made[prepared[n].tmpl] = prepared[n].mod /\ parsed[prepared[n].mod].name = n
  /\ \A t \in Templates : comp[t] # None =>
       ChainFrom(t, comp[t].chain) /\ Ends(comp[t].chain)

(* What a job relies on at the step it is at. *)
LoadInv(j) ==
  /\ j.at = "put" => j.src \in Texts
  /\ j.at \in {"look", "prepare"} => j.mod \in Modules /\ parsed[j.mod].name = j.name
  /\ j.at = "prepare" => j.why # "member"
RootInv(j) ==
  /\ Rooted(j) => j.tmpl \in Templates
  /\ Verifying(j) \/ j.at \in {"lock", "compiled"} => Members # <<>>
  /\ For(j, {"member"}) => j.todo # <<>> /\ j.name = Head(j.todo)
  /\ j.at = "lock" \/ (j.at = "compose" /\ Members = <<>>) => made[j.tmpl] = j.mod
ChainInv(j) ==
  /\ Composing(j) => ChainFrom(j.tmpl, j.chain)
  /\ For(j, {"parent"}) => j.name = Parent[NameOf(j.chain[Len(j.chain)])]
  /\ j.at = "publish" \/ For(j, {"import"}) => Ends(j.chain)
  /\ Composed(j) => j.chain # <<>>
JobInv(j) == LoadInv(j) /\ RootInv(j) /\ ChainInv(j)

(* TypeOK but for the witness, whose type is a matter of who holds the mu. *)
Typed ==
  /\ text \in [Names -> OrNone(Texts)]
  /\ edits \in 0..MaxEdits
  /\ parsed \in Seq([name : Names, text : Texts])
  /\ made \in Seq(Modules)
  /\ comp \in Seq(OrNone(Composition))
  /\ Len(comp) = Len(made)
  /\ cache \in [Names -> OrNone(Modules)]
  /\ prepared \in [Names -> OrNone([mod : Modules, tmpl : Templates])]
  /\ holder \in OrNone(Goroutines)
  /\ ok \in BOOLEAN
  /\ job \in [Goroutines -> Jobs]

IInv == Typed /\ MemoInv /\ \A g \in Goroutines : JobInv(job[g])

(* The members still to verify, and a verdict that matches its witness. *)
Settled ==
  /\ \A n \in MemberSet : witness[n] # None
  /\ ok <=> \A n \in MemberSet : ByteEqual(n)
VerifyInv(j) ==
  /\ witness # None
  /\ \A n \in MemberSet : witness[n] # None \/ \E i \in DOMAIN j.todo : j.todo[i] = n
  /\ ~j.recheck => Settled
UnitInv ==
  /\ witness \in OrNone([MemberSet -> OrNone(Modules)])
  /\ \A g \in Goroutines : Verifying(job[g]) <=> holder = g
  /\ \A g \in Goroutines : holder = g => VerifyInv(job[g])
  /\ holder = None /\ witness # None => Settled

-----------------------------------------------------------------------------
(* Type correctness and what the jobs rely on *)

(* The heaps only grow: a pointer keeps what it points to. *)
Grown ==
  /\ Len(parsed) <= Len(parsed')
  /\ \A m \in Modules : parsed'[m] = parsed[m]
  /\ Len(made) <= Len(made')
  /\ \A t \in Templates : made'[t] = made[t]

HeapsTyped ==
  /\ parsed \in Seq([name : Names, text : Texts])
  /\ made \in Seq(Modules)

(* A name, a chain of templates and a job mean the same in a grown heap. *)
LEMMA GrownNames ==
  ASSUME HeapsTyped, HeapsTyped', Grown
  PROVE  /\ Modules \subseteq Modules'
         /\ Templates \subseteq Templates'
         /\ \A t \in Templates : NameOf(t)' = NameOf(t) /\ NameOf(t) \in Names
         /\ Seq(Templates) \subseteq Seq(Templates)'
<1>1. Modules \subseteq Modules'
  BY DEF HeapsTyped, Modules, Grown
<1>2. Templates \subseteq Templates'
  BY DEF HeapsTyped, Templates, Grown
<1>3. ASSUME NEW t \in Templates
      PROVE  NameOf(t)' = NameOf(t) /\ NameOf(t) \in Names
  <2>1. made[t] \in Modules /\ made'[t] = made[t]
    BY DEF HeapsTyped, Templates, Grown
  <2>2. /\ parsed[made[t]] \in [name : Names, text : Texts]
        /\ parsed'[made[t]] = parsed[made[t]]
    <3>1. made[t] \in 1..Len(parsed)
      BY <2>1 DEF HeapsTyped, Modules
    <3> QED BY <2>1, <3>1, ElementOfSeq DEF HeapsTyped, Grown
  <2> QED BY <2>1, <2>2 DEF NameOf
<1>4. Seq(Templates) \subseteq Seq(Templates)'
  BY <1>2
<1> QED BY <1>1, <1>2, <1>3, <1>4

LEMMA GrownChain ==
  ASSUME HeapsTyped, HeapsTyped', Grown, NEW chain \in Seq(Templates)
  PROVE  /\ Linked(chain) => Linked(chain)'
         /\ chain # <<>> /\ Ends(chain) => Ends(chain)'
<1>1. \A i \in 1..Len(chain) : NameOf(chain[i])' = NameOf(chain[i])
  BY GrownNames
<1>2. Linked(chain) => Linked(chain)'
  BY <1>1 DEF Linked
<1>3. chain # <<>> /\ Ends(chain) => Ends(chain)'
  BY <1>1 DEF Ends
<1> QED BY <1>2, <1>3

LEMMA GrownJob ==
  ASSUME HeapsTyped, HeapsTyped', Grown, NEW j \in Jobs, JobInv(j)
  PROVE  (j \in Jobs)' /\ JobInv(j)'
<1> USE GrownNames
<1>1. j.chain \in Seq(Templates)
  BY DEF Jobs
<1>2. (j \in Jobs)'
  BY DEF Jobs, OrNone
<1>3. LoadInv(j)'
  BY DEF JobInv, LoadInv, Grown
<1>4. RootInv(j)'
  <2>1. Rooted(j)' <=> Rooted(j)
    BY DEF Rooted, Verifying, Composing, Composed, For, Loading
  <2>2. Verifying(j)' <=> Verifying(j)
    BY DEF Verifying, For, Loading
  <2>3. j.at = "lock" \/ j.at = "compose" => Rooted(j)
    BY DEF Rooted
  <2> QED BY <2>1, <2>2, <2>3 DEF JobInv, RootInv, Grown
<1>5. ChainInv(j)'
  <2>1. Composing(j)' <=> Composing(j)
    BY DEF Composing, For, Loading
  <2>2. Composed(j)' <=> Composed(j)
    BY DEF Composed, For, Loading
  <2>3. \A p : For(j, p)' <=> For(j, p)
    BY DEF For, Loading
  <2>4. ChainFrom(j.tmpl, j.chain) => ChainFrom(j.tmpl, j.chain)'
    BY <1>1, GrownChain DEF ChainFrom
  <2>5. For(j, {"parent"}) \/ For(j, {"import"}) \/ j.at = "publish" => j.chain # <<>>
    BY DEF JobInv, ChainInv, ChainFrom, Composing, For
  <2>6. j.chain # <<>> => NameOf(j.chain[Len(j.chain)])' = NameOf(j.chain[Len(j.chain)])
    BY <1>1
  <2> QED BY <1>1, <2>1, <2>2, <2>3, <2>4, <2>5, <2>6, GrownChain DEF JobInv, ChainInv
<1> QED BY <1>2, <1>3, <1>4, <1>5 DEF JobInv

(* A job k of g that the memos allow; the other jobs keep what they rely on. *)
LEMMA JobStep ==
  ASSUME IInv, HeapsTyped', Grown, NEW g \in Goroutines, NEW k,
         job' = [job EXCEPT ![g] = k], (k \in Jobs)', JobInv(k)'
  PROVE  (job \in [Goroutines -> Jobs])' /\ \A h \in Goroutines : JobInv(job[h])'
<1>1. HeapsTyped /\ job \in [Goroutines -> Jobs]
  BY DEF IInv, Typed, HeapsTyped
<1>2. \A j \in Jobs : JobInv(j) => (j \in Jobs)' /\ JobInv(j)'
  BY <1>1, GrownJob
<1>3. ASSUME NEW h \in Goroutines
      PROVE  (job'[h] \in Jobs') /\ JobInv(job[h])'
  <2>1. CASE h = g
    <3>1. job'[h] = k
      BY <1>1, <2>1
    <3> QED BY <3>1
  <2>2. CASE h # g
    <3>1. job'[h] = job[h]
      BY <1>1, <2>2
    <3>2. job[h] \in Jobs /\ JobInv(job[h])
      BY <1>1 DEF IInv
    <3> QED BY <3>1, <3>2, <1>2
  <2> QED BY <2>1, <2>2
<1>4. job' \in [Goroutines -> Jobs']
  BY <1>1, <1>3
<1> QED BY <1>3, <1>4

LEMMA QuietStep ==
  ASSUME IInv, NEW g \in Goroutines, NEW k, UNCHANGED <<loader, memos>>,
         job' = [job EXCEPT ![g] = k], k \in Jobs, JobInv(k),
         holder' \in OrNone(Goroutines), ok' \in BOOLEAN
  PROVE  IInv'
<1>1. HeapsTyped /\ HeapsTyped' /\ Grown
  BY DEF IInv, Typed, HeapsTyped, Grown, memos, Modules
<1>2. (k \in Jobs)' /\ JobInv(k)'
  BY <1>1, GrownJob
<1>3. (job \in [Goroutines -> Jobs])' /\ \A h \in Goroutines : JobInv(job[h])'
  BY <1>1, <1>2, JobStep
<1>4. Typed'
  BY <1>3 DEF IInv, Typed, loader, memos, Modules, Templates, OrNone, Composition
<1>5. MemoInv'
  <2>1. \A t \in Templates, chain \in Seq(Templates) : ChainFrom(t, chain) => ChainFrom(t, chain)'
    BY <1>1, GrownChain DEF ChainFrom
  <2> QED BY DEF IInv, MemoInv, memos, ChainFrom, Linked, Ends, NameOf, Templates
<1> QED BY <1>3, <1>4, <1>5 DEF IInv

LEMMA StepsOfLoadModule ==
  ASSUME IInv, NEW g \in Goroutines,
         StartRender(g) \/ CacheHit(g) \/ CacheMiss(g) \/ LoaderGet(g) \/ LoadFails(g)
  PROVE  IInv'
<1> DEFINE j == job[g]
<1>1. job \in [Goroutines -> Jobs] /\ j \in Jobs /\ JobInv(j)
  BY DEF IInv, Typed
<1>2. holder \in OrNone(Goroutines) /\ ok \in BOOLEAN
  BY DEF IInv, Typed
<1>3. CASE StartRender(g)
  <2> DEFINE k == [Idle(j.left - 1) EXCEPT !.at = "get"]
  <2>1. k \in Jobs
    <3>1. j.left - 1 \in 0..MaxRenders
      BY <1>1, <1>3, LoadAssumption DEF StartRender, Jobs
    <3>2. Idle(j.left - 1) \in Jobs
      BY <3>1, LoadAssumption DEF Idle, Jobs, Steps, Purposes, OrNone
    <3> QED BY <3>2 DEF Jobs, Steps
  <2>2. JobInv(k)
    BY DEF Idle, JobInv, LoadInv, RootInv, ChainInv, For, Loading, Verifying, Composing, Composed, Rooted
  <2> QED BY <1>1, <1>2, <1>3, <2>1, <2>2, QuietStep DEF StartRender, unit
<1>4. CASE CacheHit(g)
  <2> DEFINE k == [j EXCEPT !.at = "look", !.mod = cache[j.name]]
  <2>1. cache[j.name] \in Modules /\ parsed[cache[j.name]].name = j.name
    BY <1>1, <1>4 DEF CacheHit, IInv, Typed, MemoInv, Jobs, OrNone
  <2>2. k \in Jobs
    BY <1>1, <2>1 DEF Jobs, Steps, OrNone
  <2>3. JobInv(k)
    BY <1>1, <1>4, <2>1 DEF CacheHit, At, Jobs, JobInv, LoadInv, RootInv, ChainInv, For, Loading, Verifying, Composing, Composed, Rooted
  <2> QED BY <1>1, <1>2, <1>4, <2>2, <2>3, QuietStep DEF CacheHit, unit
<1>5. CASE CacheMiss(g)
  <2> DEFINE k == [j EXCEPT !.at = "read"]
  <2>2. k \in Jobs
    BY <1>1 DEF Jobs, Steps
  <2>3. JobInv(k)
    BY <1>1, <1>5 DEF CacheMiss, At, Jobs, JobInv, LoadInv, RootInv, ChainInv, For, Loading, Verifying, Composing, Composed, Rooted
  <2> QED BY <1>1, <1>2, <1>5, <2>2, <2>3, QuietStep DEF CacheMiss, unit
<1>6. CASE LoaderGet(g)
  <2> DEFINE k == [j EXCEPT !.at = "put", !.src = text[j.name]]
  <2>1. text[j.name] \in Texts
    BY <1>1, <1>6 DEF LoaderGet, IInv, Typed, Jobs, OrNone
  <2>2. k \in Jobs
    BY <1>1, <2>1 DEF Jobs, Steps, OrNone
  <2>3. JobInv(k)
    BY <1>1, <1>6, <2>1 DEF LoaderGet, At, Jobs, JobInv, LoadInv, RootInv, ChainInv, For, Loading, Verifying, Composing, Composed, Rooted
  <2> QED BY <1>1, <1>2, <1>6, <2>2, <2>3, QuietStep DEF LoaderGet, unit
<1>7. CASE LoadFails(g)
  <2>1. Idle(j.left) \in Jobs
    BY <1>1, LoadAssumption DEF Idle, Jobs, Steps, Purposes, OrNone
  <2>2. JobInv(Idle(j.left))
    BY DEF Idle, JobInv, LoadInv, RootInv, ChainInv, For, Loading, Verifying, Composing, Composed, Rooted
  <2>3. CASE RenderFails(g) \/ OptionFails(g)
    BY <1>1, <1>2, <1>7, <2>1, <2>2, <2>3, QuietStep
    DEF LoadFails, RenderFails, OptionFails, Ended, unit
  <2>4. CASE ImportFails(g)
    <3> DEFINE k == [j EXCEPT !.at = "publish"]
    <3>1. k \in Jobs
      BY <1>1 DEF Jobs, Steps
    <3>2. JobInv(k)
      BY <1>1, <1>7, <2>4 DEF LoadFails, ImportFails, At, Jobs, JobInv, LoadInv, RootInv, ChainInv, For, Loading, Verifying, Composing, Composed, Rooted
    <3> QED BY <1>1, <1>2, <1>7, <2>4, <3>1, <3>2, QuietStep DEF LoadFails, ImportFails, unit
  <2>5. CASE MemberFails(g)
    <3> DEFINE k == [j EXCEPT !.at = "compose"]
    <3>1. k \in Jobs
      BY <1>1 DEF Jobs, Steps
    <3>2. JobInv(k)
      BY <1>1, <1>7, <2>5 DEF LoadFails, MemberFails, At, Jobs, JobInv, LoadInv, RootInv, ChainInv, For, Loading, Verifying, Composing, Composed, Rooted
    <3> QED BY <1>1, <1>2, <1>7, <2>5, <3>1, <3>2, QuietStep DEF LoadFails, MemberFails, OrNone
  <2> QED BY <1>7, <2>3, <2>4, <2>5 DEF LoadFails
<1> QED BY <1>3, <1>4, <1>5, <1>6, <1>7

(* A chain is extended by the parent its last template names. *)
LEMMA LinkedAppend ==
  ASSUME NEW chain \in Seq(Templates), NEW u, NEW t \in Templates, ChainFrom(u, chain),
         NameOf(t) = Parent[NameOf(chain[Len(chain)])]
  PROVE  ChainFrom(u, Append(chain, t)) /\ Append(chain, t) \in Seq(Templates)
<1> DEFINE longer == Append(chain, t)
<1>1. /\ longer \in Seq(Templates) /\ Len(longer) = Len(chain) + 1
      /\ \A i \in 1..Len(chain) : longer[i] = chain[i]
      /\ longer[Len(chain) + 1] = t
  BY AppendProperties
<1>2. Len(chain) \in Nat /\ Len(chain) > 0
  BY DEF ChainFrom
<1>3. ASSUME NEW i \in 1..(Len(longer) - 1)
      PROVE  NameOf(longer[i+1]) = Parent[NameOf(longer[i])]
  <2>1. CASE i = Len(chain)
    BY <1>1, <1>2, <2>1
  <2>2. CASE i \in 1..(Len(chain) - 1)
    BY <1>1, <1>2, <2>2 DEF ChainFrom, Linked
  <2> QED BY <1>1, <1>2, <2>1, <2>2
<1> QED BY <1>1, <1>2, <1>3 DEF ChainFrom, Linked

(* A job that uses a template prepared from the module it asked for. *)
LEMMA UsedInv ==
  ASSUME NEW j \in Jobs, NEW t \in Templates, JobInv(j),
         j.at \in {"look", "prepare"}, j.why # "member", made[t] = j.mod
  PROVE  Used(j, t) \in Jobs /\ JobInv(Used(j, t))
<1> DEFINE k == Used(j, t)
<1>2. NameOf(t) = j.name
  BY DEF JobInv, LoadInv, NameOf
<1>3. CASE j.why = "page"
  <2> DEFINE u == [j EXCEPT !.tmpl = t, !.at = IF Members = <<>> THEN "compose" ELSE "lock"]
  <2>1. u \in Jobs
    BY DEF Jobs, Steps, OrNone
  <2>2. JobInv(u)
    BY <1>3 DEF Jobs, JobInv, LoadInv, RootInv, ChainInv, For, Loading, Verifying, Composing, Composed, Rooted
  <2>3. k = u
    BY <1>3 DEF Used
  <2> QED BY <2>1, <2>2, <2>3
<1>4. CASE j.why = "parent"
  <2> DEFINE u == [j EXCEPT !.chain = Append(j.chain, t), !.at = "chain"]
  <2>0. /\ j.chain \in Seq(Templates) /\ ChainFrom(j.tmpl, j.chain)
        /\ NameOf(t) = Parent[NameOf(j.chain[Len(j.chain)])] /\ j.tmpl \in Templates
    BY <1>2, <1>4 DEF Jobs, JobInv, ChainInv, RootInv, Composing, Rooted, For, Loading
  <2>1. ChainFrom(j.tmpl, Append(j.chain, t)) /\ Append(j.chain, t) \in Seq(Templates)
    BY <2>0, LinkedAppend
  <2>2. u \in Jobs
    BY <2>1 DEF Jobs, Steps
  <2>3. JobInv(u)
    BY <1>4, <2>0, <2>1 DEF Jobs, JobInv, LoadInv, RootInv, ChainInv, For, Loading, Verifying, Composing, Composed, Rooted
  <2>4. k = u
    BY <1>4 DEF Used
  <2> QED BY <2>2, <2>3, <2>4
<1>5. CASE j.why = "import"
  <2> DEFINE u == [j EXCEPT !.ns = t, !.at = "publish"]
  <2>1. u \in Jobs
    BY DEF Jobs, Steps, OrNone
  <2>2. JobInv(u)
    BY <1>5 DEF Jobs, JobInv, LoadInv, RootInv, ChainInv, For, Loading, Verifying, Composing, Composed, Rooted
  <2>3. k = u
    BY <1>5 DEF Used
  <2> QED BY <2>1, <2>2, <2>3
<1>6. CASE j.why = "include"
  <2> DEFINE u == [j EXCEPT !.at = "option"]
  <2>1. u \in Jobs
    BY DEF Jobs, Steps
  <2>2. JobInv(u)
    BY <1>6 DEF Jobs, JobInv, LoadInv, RootInv, ChainInv, For, Loading, Verifying, Composing, Composed, Rooted
  <2>3. k = u
    BY <1>6 DEF Used
  <2> QED BY <2>1, <2>2, <2>3
<1>7. CASE j.why = "option"
  <2>1. Idle(j.left) \in Jobs
    BY LoadAssumption DEF Idle, Jobs, Steps, Purposes, OrNone
  <2>2. JobInv(Idle(j.left))
    BY DEF Idle, JobInv, LoadInv, RootInv, ChainInv, For, Loading, Verifying, Composing, Composed, Rooted
  <2>3. k = Idle(j.left)
    BY <1>7 DEF Used
  <2> QED BY <2>1, <2>2, <2>3
<1> QED BY <1>3, <1>4, <1>5, <1>6, <1>7 DEF Jobs, Purposes

UsesKeepInv ==
  \A j \in Jobs, t \in Templates :
    JobInv(j) /\ j.at \in {"look", "prepare"} /\ j.why # "member" /\ made[t] = j.mod
    => Used(j, t) \in Jobs /\ JobInv(Used(j, t))

LEMMA UsesKeep == UsesKeepInv
  BY UsedInv DEF UsesKeepInv

LEMMA StepsOfLookup ==
  ASSUME IInv, NEW g \in Goroutines, PreparedHit(g) \/ PreparedMiss(g)
  PROVE  IInv'
<1> DEFINE j == job[g]
<1>1. job \in [Goroutines -> Jobs] /\ j \in Jobs /\ JobInv(j)
  BY DEF IInv, Typed
<1>2. holder \in OrNone(Goroutines) /\ ok \in BOOLEAN
  BY DEF IInv, Typed
<1>3. CASE PreparedHit(g)
  <2> DEFINE t == prepared[j.name].tmpl
  <2>1. t \in Templates /\ made[t] = j.mod
    BY <1>1, <1>3 DEF PreparedHit, Memoized, IInv, Typed, MemoInv, Jobs, OrNone
  <2>2. j.at \in {"look", "prepare"} /\ j.why # "member" /\ Use(g, t)
    BY <1>3 DEF PreparedHit, Looks, At
  <2>3. Used(j, t) \in Jobs /\ JobInv(Used(j, t))
    BY <1>1, <2>1, <2>2, UsedInv
  <2> QED BY <1>2, <1>3, <2>2, <2>3, QuietStep DEF PreparedHit, Use, unit
<1>4. CASE PreparedMiss(g)
  <2> DEFINE k == [j EXCEPT !.at = "prepare"]
  <2>2. k \in Jobs
    BY <1>1, <1>4 DEF PreparedMiss, Jobs, Steps, OrNone
  <2>3. JobInv(k)
    BY <1>1, <1>4 DEF PreparedMiss, Looks, At, Jobs, JobInv, LoadInv, RootInv, ChainInv, For, Loading, Verifying, Composing, Composed, Rooted
  <2> QED BY <1>1, <1>2, <1>4, <2>2, <2>3, QuietStep DEF PreparedMiss, Load, unit, OrNone
<1> QED BY <1>3, <1>4

LEMMA StepsOfUnit ==
  ASSUME IInv, NEW g \in Goroutines,
         \/ Lock(g) \/ NextMember(g) \/ Witness(g) \/ Verdict(g)
         \/ ProbeAbsent(g) \/ ServeCompiled(g)
  PROVE  IInv'
<1> DEFINE j == job[g]
<1>1. job \in [Goroutines -> Jobs] /\ j \in Jobs /\ JobInv(j)
  BY DEF IInv, Typed
<1>2. holder \in OrNone(Goroutines) /\ ok \in BOOLEAN
  BY DEF IInv, Typed
<1>3. CASE Lock(g)
  <2> DEFINE k == [j EXCEPT !.at = "member", !.todo = Members, !.recheck = (witness = None)]
  <2>2. k \in Jobs
    BY <1>1, <1>3, LoadAssumption DEF Lock, Jobs, Steps, OrNone
  <2>3. JobInv(k)
    BY <1>1, <1>3, LoadAssumption DEF Lock, At, Jobs, JobInv, LoadInv, RootInv, ChainInv, For, Loading, Verifying, Composing, Composed, Rooted
  <2> QED BY <1>1, <1>2, <1>3, <2>2, <2>3, QuietStep DEF Lock, Load, OrNone
<1>4. CASE NextMember(g)
  <2> DEFINE k == [j EXCEPT !.at = "get", !.name = Head(j.todo), !.why = "member"]
  <2>1. Head(j.todo) \in Names
    BY <1>1, <1>4 DEF NextMember, Jobs
  <2>2. k \in Jobs
    BY <1>1, <2>1 DEF Jobs, Steps, Purposes
  <2>3. JobInv(k)
    BY <1>1, <1>4 DEF NextMember, At, Jobs, JobInv, LoadInv, RootInv, ChainInv, For, Loading, Verifying, Composing, Composed, Rooted
  <2> QED BY <1>1, <1>2, <1>4, <2>2, <2>3, QuietStep DEF NextMember, Load, unit
<1>5. CASE Witness(g)
  <2> DEFINE k == [j EXCEPT !.at = "member", !.todo = Tail(j.todo),
                            !.recheck = j.recheck \/ witness[j.name] # j.mod]
  <2>1. Tail(j.todo) \in Seq(Names)
    BY <1>1, <1>5 DEF Witness, At, Jobs, JobInv, RootInv, For, Loading
  <2>2. k \in Jobs
    BY <1>1, <2>1 DEF Jobs, Steps
  <2>3. JobInv(k)
    BY <1>1, <1>5 DEF Witness, At, Jobs, JobInv, LoadInv, RootInv, ChainInv, For, Loading, Verifying, Composing, Composed, Rooted
  <2> QED BY <1>1, <1>2, <1>5, <2>2, <2>3, QuietStep DEF Witness
<1>6. CASE Verdict(g)
  <2> DEFINE k == [j EXCEPT !.at = IF ok' THEN "compiled" ELSE "compose",
                            !.todo = IF ok' THEN Absent ELSE <<>>]
  <2>1. ok' \in BOOLEAN
    <3>1. CASE j.recheck
      BY <1>6, <3>1, Zenon DEF Verdict
    <3>2. CASE ~j.recheck
      BY <1>2, <1>6, <3>2 DEF Verdict
    <3> QED BY <3>1, <3>2
  <2>2. k \in Jobs
    <3>1. (IF ok' THEN Absent ELSE <<>>) \in Seq(Names)
      BY LoadAssumption
    <3> QED BY <1>1, <3>1 DEF Jobs, Steps
  <2>3. JobInv(k)
    BY <1>1, <1>6, <2>1 DEF Verdict, At, Jobs, JobInv, LoadInv, RootInv, ChainInv, For, Loading, Verifying, Composing, Composed, Rooted
  <2> QED BY <1>1, <1>2, <1>6, <2>1, <2>2, <2>3, QuietStep DEF Verdict, OrNone
<1>7. CASE ProbeAbsent(g)
  <2> DEFINE k == IF Exists(Head(j.todo)) THEN [j EXCEPT !.at = "compose", !.todo = <<>>]
                  ELSE [j EXCEPT !.todo = Tail(j.todo)]
  <2>1. Tail(j.todo) \in Seq(Names)
    BY <1>1, <1>7 DEF ProbeAbsent, Jobs
  <2>2. k \in Jobs
    <3>1. [j EXCEPT !.at = "compose", !.todo = <<>>] \in Jobs
      <4> DEFINE empty == <<>>
      <4>1. empty \in Seq(Names)
        OBVIOUS
      <4> HIDE DEF empty
      <4>2. [j EXCEPT !.at = "compose", !.todo = empty] \in Jobs
        BY <1>1, <4>1 DEF Jobs, Steps
      <4> QED BY <4>2 DEF empty
    <3>2. [j EXCEPT !.todo = Tail(j.todo)] \in Jobs
      BY <1>1, <2>1 DEF Jobs
    <3> QED BY <3>1, <3>2
  <2>3. JobInv(k)
    BY <1>1, <1>7 DEF ProbeAbsent, At, Jobs, JobInv, LoadInv, RootInv, ChainInv, For, Loading, Verifying, Composing, Composed, Rooted
  <2>4. job' = [job EXCEPT ![g] = k]
    BY <1>1, <1>7 DEF ProbeAbsent
  <2> QED BY <1>2, <1>7, <2>2, <2>3, <2>4, QuietStep DEF ProbeAbsent, unit
<1>8. CASE ServeCompiled(g)
  <2>1. Idle(j.left) \in Jobs
    BY <1>1, LoadAssumption DEF Idle, Jobs, Steps, Purposes, OrNone
  <2>2. JobInv(Idle(j.left))
    BY DEF Idle, JobInv, LoadInv, RootInv, ChainInv, For, Loading, Verifying, Composing, Composed, Rooted
  <2> QED BY <1>2, <1>8, <2>1, <2>2, QuietStep DEF ServeCompiled, Ended, unit
<1> QED BY <1>3, <1>4, <1>5, <1>6, <1>7, <1>8

(* The last template of a chain has a name, which may have a parent. *)
LEMMA TopNamed ==
  ASSUME Typed, NEW g \in Goroutines, job[g].chain # <<>>
  PROVE  Top(g) \in Names
<1>1. job[g].chain \in Seq(Templates)
  BY DEF Typed, Jobs
<1> DEFINE t == job[g].chain[Len(job[g].chain)]
<1>2. t \in Templates
  BY <1>1
<1>3. made[t] \in 1..Len(parsed)
  <2>1. made \in Seq(Modules) /\ Modules = 1..Len(parsed)
    BY DEF Typed, Modules
  <2>2. t \in 1..Len(made)
    BY <1>2, <2>1 DEF Templates
  <2> HIDE DEF t
  <2> QED BY <2>1, <2>2, ElementOfSeq
<1>4. parsed[made[t]] \in [name : Names, text : Texts]
  BY <1>3, ElementOfSeq DEF Typed
<1> QED BY <1>4 DEF Top, NameOf

LEMMA StepsOfCompose ==
  ASSUME IInv, NEW g \in Goroutines,
         ComposeMemo(g) \/ ComposeFresh(g) \/ WalkParent(g) \/ LoadMacros(g)
  PROVE  IInv'
<1> DEFINE j == job[g]
<1>1. job \in [Goroutines -> Jobs] /\ j \in Jobs /\ JobInv(j)
  BY DEF IInv, Typed
<1>2. holder \in OrNone(Goroutines) /\ ok \in BOOLEAN
  BY DEF IInv, Typed
<1>3. CASE ComposeMemo(g)
  <2> DEFINE m == comp[j.tmpl]
             k == [j EXCEPT !.at = "body", !.chain = m.chain, !.ns = m.ns]
  <2>1. j.tmpl \in Templates /\ m \in Composition /\ m.chain # <<>>
    <3>1. j.tmpl \in Templates
      BY <1>1, <1>3 DEF ComposeMemo, At, JobInv, RootInv, Rooted
    <3>2. m # None /\ j.tmpl \in 1..Len(comp)
      BY <1>3, <3>1 DEF ComposeMemo, IInv, Typed, Templates
    <3>3. m \in OrNone(Composition)
      BY <3>2, ElementOfSeq DEF IInv, Typed
    <3> QED BY <3>1, <3>2, <3>3 DEF OrNone, IInv, MemoInv, ChainFrom
  <2>2. m.chain \in Seq(Templates) /\ m.ns \in OrNone(Templates)
    BY <2>1 DEF Composition
  <2>3. k \in Jobs
    BY <1>1, <2>2 DEF Jobs, Steps
  <2>4. JobInv(k)
    BY <1>1, <1>3, <2>1 DEF ComposeMemo, At, Jobs, JobInv, LoadInv, RootInv, ChainInv, For, Loading, Verifying, Composing, Composed, Rooted
  <2> QED BY <1>1, <1>2, <1>3, <2>3, <2>4, QuietStep DEF ComposeMemo, unit
<1>4. CASE ComposeFresh(g)
  <2> DEFINE k == [j EXCEPT !.at = "chain", !.chain = <<j.tmpl>>]
  <2>1. j.tmpl \in Templates
    BY <1>1, <1>4 DEF ComposeFresh, At, JobInv, RootInv, Rooted
  <2>2. <<j.tmpl>> \in Seq(Templates) /\ ChainFrom(j.tmpl, <<j.tmpl>>)
    BY <2>1 DEF ChainFrom, Linked
  <2>3. k \in Jobs
    BY <1>1, <2>2 DEF Jobs, Steps
  <2>4. JobInv(k)
    BY <1>1, <1>4, <2>1, <2>2 DEF ComposeFresh, At, Jobs, JobInv, LoadInv, RootInv, ChainInv, For, Loading, Verifying, Composing, Composed, Rooted
  <2> QED BY <1>1, <1>2, <1>4, <2>3, <2>4, QuietStep DEF ComposeFresh, unit
<1>5. CASE WalkParent(g)
  <2> DEFINE k == [j EXCEPT !.at = "get", !.name = Parent[Top(g)], !.why = "parent"]
  <2>1. Parent[Top(g)] \in Names
    <3>1. j.chain # <<>>
      BY <1>1, <1>5 DEF WalkParent, At, JobInv, ChainInv, ChainFrom, Composing
    <3> QED BY <3>1, <1>5, TopNamed, LoadAssumption DEF WalkParent, IInv
  <2>2. k \in Jobs
    BY <1>1, <2>1 DEF Jobs, Steps, Purposes
  <2>3. JobInv(k)
    BY <1>1, <1>5, <2>1 DEF WalkParent, Top, At, Jobs, JobInv, LoadInv, RootInv, ChainInv, For, Loading, Verifying, Composing, Composed, Rooted
  <2> QED BY <1>1, <1>2, <1>5, <2>2, <2>3, QuietStep DEF WalkParent, Load, unit
<1>6. CASE LoadMacros(g)
  <2>1. Ends(j.chain)
    BY <1>6 DEF LoadMacros, Top, Ends
  <2>2. CASE Import[Page] # None
    <3> DEFINE k == [j EXCEPT !.at = "get", !.name = Import[Page], !.why = "import"]
    <3>1. k \in Jobs
      BY <1>1, <2>2, LoadAssumption DEF Jobs, Steps, Purposes
    <3>2. JobInv(k)
      BY <1>1, <1>6, <2>1 DEF LoadMacros, At, Jobs, JobInv, LoadInv, RootInv, ChainInv, For, Loading, Verifying, Composing, Composed, Rooted
    <3> QED BY <1>1, <1>2, <1>6, <2>2, <3>1, <3>2, QuietStep DEF LoadMacros, Load, unit
  <2>3. CASE Import[Page] = None
    <3> DEFINE k == [j EXCEPT !.at = "publish"]
    <3>1. k \in Jobs
      BY <1>1 DEF Jobs, Steps
    <3>2. JobInv(k)
      BY <1>1, <1>6, <2>1 DEF LoadMacros, At, Jobs, JobInv, LoadInv, RootInv, ChainInv, For, Loading, Verifying, Composing, Composed, Rooted
    <3> QED BY <1>1, <1>2, <1>6, <2>3, <3>1, <3>2, QuietStep DEF LoadMacros, unit
  <2> QED BY <2>2, <2>3
<1> QED BY <1>3, <1>4, <1>5, <1>6

LEMMA StepsOfBody ==
  ASSUME IInv, NEW g \in Goroutines, Body(g) \/ Option(g)
  PROVE  IInv'
<1> DEFINE j == job[g]
<1>1. job \in [Goroutines -> Jobs] /\ j \in Jobs /\ JobInv(j)
  BY DEF IInv, Typed
<1>2. holder \in OrNone(Goroutines) /\ ok \in BOOLEAN
  BY DEF IInv, Typed
<1>3. j.at \in {"body", "option"} /\ Top(g) \in Names /\ j.chain # <<>>
  <2>1. j.at \in {"body", "option"}
    BY DEF Body, Option, At
  <2>2. j.chain # <<>>
    BY <1>1, <2>1 DEF JobInv, ChainInv, Composed
  <2> QED BY <2>1, <2>2, TopNamed DEF IInv
<1>4. ASSUME NEW n \in Names, NEW p \in {"include", "option"}, Load(g, n, p),
             UNCHANGED <<loader, memos, unit>>
      PROVE  IInv'
  <2> DEFINE k == [j EXCEPT !.at = "get", !.name = n, !.why = p]
  <2>1. k \in Jobs
    BY <1>1 DEF Jobs, Steps, Purposes
  <2>2. JobInv(k)
    BY <1>1, <1>3 DEF At, Jobs, JobInv, LoadInv, RootInv, ChainInv, For, Loading, Verifying, Composing, Composed, Rooted
  <2> QED BY <1>1, <1>2, <1>4, <2>1, <2>2, QuietStep DEF Load, unit
<1>5. CASE Body(g)
  <2>1. CASE Include[Top(g)] # None
    BY <1>3, <1>4, <1>5, <2>1, LoadAssumption DEF Body
  <2>2. CASE Include[Top(g)] = None
    <3> DEFINE k == [j EXCEPT !.at = "option"]
    <3>1. k \in Jobs
      BY <1>1 DEF Jobs, Steps
    <3>2. JobInv(k)
      BY <1>1, <1>3 DEF At, Jobs, JobInv, LoadInv, RootInv, ChainInv, For, Loading, Verifying, Composing, Composed, Rooted
    <3> QED BY <1>1, <1>2, <1>5, <2>2, <3>1, <3>2, QuietStep DEF Body, unit
  <2> QED BY <2>1, <2>2
<1>6. CASE Option(g)
  <2> DEFINE n == Optional[Top(g)]
  <2>1. CASE n # None /\ Exists(n)
    BY <1>3, <1>4, <1>6, <2>1, LoadAssumption DEF Option
  <2>2. CASE ~(n # None /\ Exists(n))
    <3>1. Idle(j.left) \in Jobs
      BY <1>1, LoadAssumption DEF Idle, Jobs, Steps, Purposes, OrNone
    <3>2. JobInv(Idle(j.left))
      BY DEF Idle, JobInv, LoadInv, RootInv, ChainInv, For, Loading, Verifying, Composing, Composed, Rooted
    <3>3. job' = [job EXCEPT ![g] = Idle(j.left)]
      BY <1>6, <2>2 DEF Option, Ended
    <3> QED BY <1>2, <1>6, <3>1, <3>2, <3>3, QuietStep DEF Option, unit
  <2> QED BY <2>1, <2>2
<1> QED BY <1>5, <1>6

(* A memoized composition is complete and stays so when the heaps grow. *)
LEMMA MemoChains ==
  ASSUME Typed, MemoInv, NEW t \in Templates, comp[t] # None
  PROVE  /\ comp[t] \in Composition /\ comp[t].chain \in Seq(Templates)
         /\ ChainFrom(t, comp[t].chain) /\ Ends(comp[t].chain)
<1>1. t \in 1..Len(comp)
  BY DEF Typed, Templates
<1>2. comp[t] \in OrNone(Composition)
  BY <1>1, ElementOfSeq DEF Typed
<1> QED BY <1>2 DEF OrNone, Composition, MemoInv

LEMMA GrownMemo ==
  ASSUME Typed, MemoInv, HeapsTyped', Grown,
         NEW t \in Templates, comp[t] # None, comp'[t] = comp[t]
  PROVE  ChainFrom(t, comp[t].chain)' /\ Ends(comp[t].chain)'
<1>1. PICK c : c = comp[t].chain
  OBVIOUS
<1>2. c \in Seq(Templates) /\ ChainFrom(t, c) /\ Ends(c)
  BY <1>1, MemoChains
<1>3. Linked(c)' /\ Ends(c)'
  BY <1>2, GrownChain DEF ChainFrom, Typed, HeapsTyped
<1> QED BY <1>1, <1>2, <1>3 DEF ChainFrom

(* The actions that change a heap, a memo or what the loader serves. *)
LEMMA StepOfCachePut ==
  ASSUME IInv, NEW g \in Goroutines, CachePut(g)
  PROVE  IInv'
<1> DEFINE m == Len(parsed) + 1
<1>1. PICK j : j = job[g]
  OBVIOUS
<1>2. PICK k : k = [j EXCEPT !.at = "look", !.mod = m, !.src = None]
  OBVIOUS
<1>3. /\ HeapsTyped /\ job \in [Goroutines -> Jobs] /\ j \in Jobs /\ JobInv(j)
      /\ j.at = "put" /\ j.name \in Names /\ j.src \in Texts
  BY <1>1 DEF IInv, Typed, HeapsTyped, CachePut, At, Jobs, JobInv, LoadInv
<1>4. /\ parsed' \in Seq([name : Names, text : Texts])
      /\ Len(parsed') = m /\ parsed'[m] = [name |-> j.name, text |-> j.src]
      /\ \A i \in 1..Len(parsed) : parsed'[i] = parsed[i]
  <2>1. [name |-> j.name, text |-> j.src] \in [name : Names, text : Texts]
    BY <1>3
  <2> QED BY <1>1, <1>3, <2>1, AppendProperties DEF CachePut, HeapsTyped
<1>5. Modules = 1..Len(parsed) /\ Modules' = 1..m /\ m \in Nat
  BY <1>3, <1>4 DEF Modules, HeapsTyped
<1>6. Templates' = Templates /\ made' \in Seq(Modules')
  BY <1>3, <1>5 DEF CachePut, Templates, HeapsTyped
<1>7. HeapsTyped' /\ Grown
  BY <1>3, <1>4, <1>5, <1>6 DEF HeapsTyped, Grown, CachePut
<1>8. (k \in Jobs)' /\ JobInv(k)'
  <2>1. (j \in Jobs)' /\ JobInv(j)'
    BY <1>3, <1>7, GrownJob
  <2>2. m \in Modules' /\ parsed'[m].name = j.name
    BY <1>4, <1>5
  <2>3. k \in Jobs'
    BY <1>2, <2>1, <2>2 DEF Jobs, Steps, OrNone
  <2>4. JobInv(k)'
    BY <1>2, <1>3, <2>1, <2>2 DEF At, Jobs, JobInv, LoadInv, RootInv, ChainInv, For, Loading, Verifying, Composing, Composed, Rooted
  <2> QED BY <2>3, <2>4
<1>9. (job \in [Goroutines -> Jobs])' /\ \A h \in Goroutines : JobInv(job[h])'
  <2>1. job' = [job EXCEPT ![g] = k]
    BY <1>1, <1>2, <1>3, <1>4 DEF CachePut
  <2> QED BY <1>7, <1>8, <2>1, JobStep
<1>10. cache' = [cache EXCEPT ![j.name] = m]
  BY <1>1, <1>4 DEF CachePut
<1>11. Typed'
  <2>1. cache' \in [Names -> OrNone(Modules)']
    BY <1>3, <1>5, <1>10 DEF IInv, Typed, OrNone
  <2>2. prepared' \in [Names -> OrNone([mod : Modules', tmpl : Templates'])]
    BY <1>5, <1>6 DEF CachePut, IInv, Typed, OrNone
  <2>3. comp' \in Seq(OrNone(Composition)')
    BY <1>6 DEF CachePut, IInv, Typed, OrNone, Composition
  <2> QED BY <1>4, <1>6, <1>9, <2>1, <2>2, <2>3 DEF CachePut, IInv, Typed, loader, unit, OrNone
<1>12. MemoInv'
  <2>1. \A n \in Names : cache'[n] # None => parsed'[cache'[n]].name = n
    BY <1>3, <1>4, <1>5, <1>10 DEF IInv, MemoInv, Typed, OrNone
  <2>2. \A n \in Names : prepared'[n] # None =>
          made'[prepared'[n].tmpl] = prepared'[n].mod /\ parsed'[prepared'[n].mod].name = n
    BY <1>4, <1>5 DEF CachePut, IInv, MemoInv, Typed, OrNone
  <2>3. ASSUME NEW t \in Templates', comp'[t] # None
        PROVE  ChainFrom(t, comp[t].chain)' /\ Ends(comp[t].chain)'
    BY <1>6, <1>7, <2>3, GrownMemo DEF CachePut, IInv
  <2> QED BY <2>1, <2>2, <2>3 DEF MemoInv
<1> QED BY <1>9, <1>11, <1>12 DEF IInv

LEMMA StepOfPrepare ==
  ASSUME IInv, NEW g \in Goroutines, Prepare(g)
  PROVE  IInv'
<1> DEFINE t == Len(made) + 1
<1>1. PICK j : j = job[g]
  OBVIOUS
<1>2. /\ HeapsTyped /\ job \in [Goroutines -> Jobs] /\ j \in Jobs /\ JobInv(j)
      /\ j.at = "prepare" /\ j.name \in Names /\ j.why # "member"
      /\ j.mod \in Modules /\ parsed[j.mod].name = j.name
  BY <1>1 DEF IInv, Typed, HeapsTyped, Prepare, At, Jobs, JobInv, LoadInv
<1>3. /\ made' \in Seq(Modules) /\ Len(made') = t /\ made'[t] = j.mod
      /\ \A i \in 1..Len(made) : made'[i] = made[i]
  BY <1>1, <1>2, AppendProperties DEF Prepare, HeapsTyped
<1>4. Templates = 1..Len(made) /\ Templates' = 1..t /\ t \in Nat
  BY <1>2, <1>3 DEF Templates, HeapsTyped
<1>5. Modules' = Modules /\ parsed' = parsed
  BY DEF Prepare, Modules
<1>6. HeapsTyped' /\ Grown
  BY <1>2, <1>3, <1>4, <1>5 DEF HeapsTyped, Grown
<1>7. prepared' = [prepared EXCEPT ![j.name] = [mod |-> j.mod, tmpl |-> t]]
  BY <1>1, <1>3 DEF Prepare
<1>8. /\ comp' \in Seq(OrNone(Composition)') /\ Len(comp') = t /\ comp'[t] = None
      /\ \A i \in 1..Len(made) : comp'[i] = comp[i]
  <2>1. OrNone(Composition) \subseteq OrNone(Composition)'
    BY <1>2, <1>6, GrownNames DEF OrNone, Composition
  <2>2. comp \in Seq(OrNone(Composition)') /\ Len(comp) = Len(made)
    BY <2>1 DEF IInv, Typed
  <2>3. None \in OrNone(Composition)'
    BY DEF OrNone
  <2> QED BY <2>2, <2>3, AppendProperties DEF Prepare
<1>9. MemoInv'
  <2>1. \A n \in Names : cache'[n] # None => parsed'[cache'[n]].name = n
    BY <1>5 DEF Prepare, IInv, MemoInv
  <2>2. \A n \in Names : prepared'[n] # None =>
          made'[prepared'[n].tmpl] = prepared'[n].mod /\ parsed'[prepared'[n].mod].name = n
    BY <1>2, <1>3, <1>4, <1>5, <1>7 DEF IInv, MemoInv, Typed, OrNone
  <2>3. ASSUME NEW u \in Templates', comp'[u] # None
        PROVE  ChainFrom(u, comp[u].chain)' /\ Ends(comp[u].chain)'
    <3>1. u \in Templates /\ comp'[u] = comp[u]
      BY <1>4, <1>8, <2>3
    <3> QED BY <1>6, <2>3, <3>1, GrownMemo DEF IInv
  <2> QED BY <2>1, <2>2, <2>3 DEF MemoInv
<1>10. /\ cache' \in [Names -> OrNone(Modules)']
       /\ prepared' \in [Names -> OrNone([mod : Modules', tmpl : Templates'])]
  <2>1. cache' \in [Names -> OrNone(Modules)']
    BY <1>5 DEF Prepare, IInv, Typed, OrNone
  <2>2. [mod |-> j.mod, tmpl |-> t] \in [mod : Modules', tmpl : Templates']
    BY <1>2, <1>4, <1>5
  <2>3. prepared \in [Names -> OrNone([mod : Modules', tmpl : Templates'])]
    BY <1>4, <1>5 DEF IInv, Typed, OrNone
  <2> QED BY <1>7, <2>1, <2>2, <2>3 DEF OrNone
<1>11. (job \in [Goroutines -> Jobs])' /\ \A h \in Goroutines : JobInv(job[h])'
  <2>1. (j \in Jobs)' /\ JobInv(j)'
    BY <1>2, <1>6, GrownJob
  <2>2. PICK k : k = Used(j, t)
    OBVIOUS
  <2>3. k \in Jobs' /\ JobInv(k)'
    <3>1. UsesKeepInv'
      BY UsesKeep, PTL
    <3> QED BY <1>2, <1>3, <1>4, <2>1, <2>2, <3>1 DEF UsesKeepInv
  <2>4. job' = [job EXCEPT ![g] = k]
    BY <1>1, <1>3, <2>2 DEF Prepare, Use
  <2> QED BY <1>6, <2>3, <2>4, JobStep
<1>12. Typed'
  BY <1>3, <1>5, <1>8, <1>10, <1>11 DEF Prepare, IInv, Typed, loader, unit, OrNone
<1> QED BY <1>9, <1>11, <1>12 DEF IInv

LEMMA StepOfPublish ==
  ASSUME IInv, NEW g \in Goroutines, Publish(g)
  PROVE  IInv'
<1>1. PICK j : j = job[g]
  OBVIOUS
<1>2. PICK c : c = [chain |-> j.chain, ns |-> j.ns]
  OBVIOUS
<1>3. PICK k : k = [j EXCEPT !.at = "body"]
  OBVIOUS
<1>4. /\ HeapsTyped /\ job \in [Goroutines -> Jobs] /\ j \in Jobs /\ JobInv(j)
      /\ j.at = "publish" /\ j.tmpl \in Templates
      /\ j.chain \in Seq(Templates) /\ ChainFrom(j.tmpl, j.chain) /\ Ends(j.chain)
  BY <1>1 DEF IInv, Typed, HeapsTyped, Publish, At, Jobs, JobInv, LoadInv, RootInv, ChainInv, For, Loading, Verifying, Composing, Composed, Rooted
<1>5. /\ Modules' = Modules /\ Templates' = Templates /\ parsed' = parsed /\ made' = made
      /\ HeapsTyped' /\ Grown
  BY <1>4 DEF Publish, Modules, Templates, HeapsTyped, Grown
<1>6. k \in Jobs /\ JobInv(k)
  <2>1. k \in Jobs
    BY <1>3, <1>4 DEF Jobs, Steps
  <2>2. JobInv(k)
    BY <1>3, <1>4 DEF ChainFrom, At, Jobs, JobInv, LoadInv, RootInv, ChainInv, For, Loading, Verifying, Composing, Composed, Rooted
  <2> QED BY <2>1, <2>2
<1>7. (job \in [Goroutines -> Jobs])' /\ \A h \in Goroutines : JobInv(job[h])'
  <2>1. (k \in Jobs)' /\ JobInv(k)'
    BY <1>4, <1>5, <1>6, GrownJob
  <2>2. job' = [job EXCEPT ![g] = k]
    BY <1>1, <1>3, <1>4 DEF Publish
  <2> QED BY <1>5, <2>1, <2>2, JobStep
<1>8. comp' = [comp EXCEPT ![j.tmpl] = c]
  BY <1>1, <1>2 DEF Publish
<1>9. c \in Composition
  BY <1>2, <1>4 DEF Composition, Jobs
<1>10. comp' \in Seq(OrNone(Composition)) /\ Len(comp') = Len(comp)
  BY <1>8, <1>9, <1>4 DEF IInv, Typed, OrNone, Templates
<1>11. Typed'
  BY <1>5, <1>7, <1>10 DEF Publish, IInv, Typed, loader, unit, OrNone, Composition
<1>12. MemoInv'
  <2>1. ASSUME NEW t \in Templates', comp'[t] # None
        PROVE  ChainFrom(t, comp[t].chain)' /\ Ends(comp[t].chain)'
    <3>1. CASE t = j.tmpl
      <4>1. comp'[t].chain = j.chain
        BY <1>2, <1>4, <1>8, <3>1 DEF IInv, Typed, Templates
      <4>2. Linked(j.chain)' /\ Ends(j.chain)'
        BY <1>4, <1>5, GrownChain DEF ChainFrom
      <4> QED BY <1>4, <3>1, <4>1, <4>2 DEF ChainFrom
    <3>2. CASE t # j.tmpl
      <4>1. t \in Templates /\ comp'[t] = comp[t]
        BY <1>5, <1>8, <3>2 DEF IInv, Typed, Templates
      <4> QED BY <1>5, <2>1, <4>1, GrownMemo DEF IInv
    <3> QED BY <3>1, <3>2
  <2> QED BY <1>5, <2>1 DEF Publish, IInv, MemoInv
<1> QED BY <1>7, <1>11, <1>12 DEF IInv

LEMMA StepOfEdit ==
  ASSUME IInv, NEW n \in Names, NEW v \in Serves(n), Edit(n, v)
  PROVE  IInv'
<1>1. text' \in [Names -> OrNone(Texts)] /\ edits' \in 0..MaxEdits
  BY LoadAssumption DEF Edit, Serves, IInv, Typed, OrNone
<1>2. Typed'
  BY <1>1 DEF Edit, IInv, Typed, memos, unit, OrNone, Composition, Modules, Templates, Jobs
<1>3. MemoInv'
  BY ZenonT(60) DEF Edit, memos, IInv, MemoInv, ChainFrom, Linked, Ends, NameOf, Templates
<1>4. \A h \in Goroutines : JobInv(job[h])'
  BY ZenonT(60) DEF Edit, memos, IInv, JobInv, LoadInv, RootInv, ChainInv, For, Loading, Verifying,
         Composing, Composed, Rooted, ChainFrom, Linked, Ends, NameOf, Templates, Modules
<1> QED BY <1>2, <1>3, <1>4 DEF IInv

LEMMA IInvInit == Init => IInv
<1> SUFFICES ASSUME Init
             PROVE  IInv
  OBVIOUS
<1>1. Idle(MaxRenders) \in Jobs
  BY LoadAssumption DEF Idle, Jobs, Steps, Purposes, OrNone
<1>2. JobInv(Idle(MaxRenders))
  BY DEF Idle, JobInv, LoadInv, RootInv, ChainInv, For, Loading, Verifying, Composing, Composed, Rooted
<1>3. Typed
  <2>1. parsed \in Seq([name : Names, text : Texts]) /\ made \in Seq(Modules)
    BY DEF Init
  <2>2. comp \in Seq(OrNone(Composition)) /\ Len(comp) = Len(made)
    BY DEF Init
  <2>3. /\ text \in [Names -> OrNone(Texts)] /\ edits \in 0..MaxEdits
        /\ cache \in [Names -> OrNone(Modules)]
        /\ prepared \in [Names -> OrNone([mod : Modules, tmpl : Templates])]
    BY LoadAssumption DEF Init, OrNone
  <2>4. holder \in OrNone(Goroutines) /\ ok \in BOOLEAN /\ job \in [Goroutines -> Jobs]
    BY <1>1 DEF Init, OrNone
  <2> QED BY <2>1, <2>2, <2>3, <2>4 DEF Typed
<1>4. MemoInv
  BY DEF Init, MemoInv, Templates
<1> QED BY <1>1, <1>2, <1>3, <1>4 DEF Init, IInv

LEMMA IInvStep == IInv /\ [Next]_vars => IInv'
<1> SUFFICES ASSUME IInv, [Next]_vars
             PROVE  IInv'
  OBVIOUS
<1>1. ASSUME NEW g \in Goroutines, Render(g)
      PROVE  IInv'
  BY <1>1, StepsOfLoadModule, StepsOfLookup, StepsOfUnit, StepsOfCompose, StepsOfBody,
     StepOfCachePut, StepOfPrepare, StepOfPublish DEF Render
<1>2. ASSUME NEW n \in Names, NEW v \in Serves(n), Edit(n, v)
      PROVE  IInv'
  BY <1>2, StepOfEdit
<1>3. CASE UNCHANGED vars
  <2>1. Typed'
    BY <1>3 DEF vars, IInv, Typed, loader, memos, unit, OrNone, Composition, Modules, Templates, Jobs
  <2>2. MemoInv'
    BY <1>3 DEF vars, memos, IInv, MemoInv, ChainFrom, Linked, Ends, NameOf, Templates
  <2>3. \A h \in Goroutines : JobInv(job[h])'
    BY <1>3, ZenonT(60) DEF vars, memos, IInv, JobInv, LoadInv, RootInv, ChainInv, For, Loading, Verifying,
           Composing, Composed, Rooted, ChainFrom, Linked, Ends, NameOf, Templates, Modules
  <2> QED BY <2>1, <2>2, <2>3 DEF IInv
<1> QED BY <1>1, <1>2, <1>3 DEF Next

LEMMA LoadInvariant == Spec => []IInv
<1> QED BY IInvInit, IInvStep, PTL DEF Spec

(* prepare: a goroutine renders the page it prepared from the module that    *)
(* its own load found, whatever others cached and prepared meanwhile.        *)
THEOREM RendersItsModule == Spec => []LoadedFromItsModule
<1>1. IInv => LoadedFromItsModule
  BY DEF IInv, JobInv, RootInv, LoadedFromItsModule, At
<1> QED BY <1>1, LoadInvariant, PTL

(* composeTemplate: a memoized composition starts at its template, follows   *)
(* the parents the heads name and is complete, whichever render published it. *)
THEOREM MemoFollowsHeads == Spec => []CompositionFollowsHeads
<1>1. IInv => CompositionFollowsHeads
  BY DEF IInv, MemoInv, ChainFrom, Linked, Ends, CompositionFollowsHeads
<1> QED BY <1>1, LoadInvariant, PTL

-----------------------------------------------------------------------------
(* The unit's mu, witness and verdict *)

(* A step of g that leaves the unit alone: g goes on verifying, or goes on   *)
(* doing something else.                                                     *)
Aside(g) ==
  /\ UNCHANGED unit
  /\ \A h \in Goroutines : h # g => job'[h] = job[h]
  /\ Verifying(job'[g]) <=> Verifying(job[g])
  /\ Verifying(job[g]) => job'[g].todo = job[g].todo /\ job'[g].recheck = job[g].recheck

HeapsGrow == HeapsTyped /\ HeapsTyped' /\ Grown

LEMMA SettledStays ==
  ASSUME HeapsGrow, UNCHANGED unit,
         witness \in OrNone([MemberSet -> OrNone(Modules)]), witness # None
  PROVE  Settled' <=> Settled
<1>1. \A n \in MemberSet : witness[n] # None => witness[n] \in Modules
  BY DEF OrNone
<1>2. \A n \in MemberSet : witness[n] # None => (ByteEqual(n)' <=> ByteEqual(n))
  BY <1>1 DEF HeapsGrow, Grown, ByteEqual, unit
<1> QED BY <1>2 DEF Settled, unit

LEMMA AsideKeeps ==
  ASSUME UnitInv, HeapsGrow, NEW g \in Goroutines, Aside(g)
  PROVE  UnitInv'
<1>1. witness' \in OrNone([MemberSet -> OrNone(Modules)])'
  BY GrownNames DEF HeapsGrow, UnitInv, Aside, unit, OrNone
<1>2. \A h \in Goroutines : Verifying(job'[h]) <=> Verifying(job[h])
  BY DEF Aside
<1>3. \A h \in Goroutines : Verifying(job[h])' <=> holder' = h
  BY <1>2 DEF UnitInv, Aside, unit, Verifying, For, Loading
<1>4. ASSUME NEW h \in Goroutines, holder' = h
      PROVE  VerifyInv(job[h])'
  <2>1. holder = h /\ VerifyInv(job[h]) /\ Verifying(job[h])
    BY <1>4 DEF UnitInv, Aside, unit
  <2>2. job'[h].todo = job[h].todo /\ job'[h].recheck = job[h].recheck
    BY <2>1 DEF Aside
  <2>3. Settled' <=> Settled
    BY <2>1, SettledStays DEF VerifyInv, UnitInv, Aside
  <2> QED BY <2>1, <2>2, <2>3 DEF VerifyInv, Aside, unit
<1>5. holder' = None /\ witness' # None => Settled'
  BY SettledStays DEF UnitInv, Aside, unit
<1> QED BY <1>1, <1>3, <1>4, <1>5 DEF UnitInv

LEMMA StepsAside ==
  ASSUME IInv, NEW g \in Goroutines, Render(g),
         ~Lock(g), ~Witness(g), ~Verdict(g), ~(LoadFails(g) /\ MemberFails(g))
  PROVE  Aside(g)
<1> USE DEF Aside, Verifying, For, Loading, At, Jobs, unit
<1>1. job \in [Goroutines -> Jobs]
  BY DEF IInv, Typed
<1>2. CASE StartRender(g)
  BY <1>1, <1>2 DEF StartRender, Idle
<1>3. CASE CacheHit(g) \/ CacheMiss(g) \/ LoaderGet(g) \/ CachePut(g)
  BY <1>1, <1>3 DEF CacheHit, CacheMiss, LoaderGet, CachePut
<1>4. CASE LoadFails(g)
  BY <1>1, <1>4 DEF LoadFails, RenderFails, OptionFails, ImportFails, Ended, Idle
<1>5. CASE PreparedMiss(g)
  BY <1>1, <1>5 DEF PreparedMiss, Looks
<1>10. CASE PreparedHit(g) \/ Prepare(g)
  <2>1. ~Verifying(job[g]) /\ job[g].why \in Purposes /\ job[g].why # "member"
    BY <1>1, <1>10 DEF PreparedHit, Looks, Prepare, IInv, JobInv, LoadInv
  <2>2. PICK t : job' = [job EXCEPT ![g] = Used(job[g], t)]
    BY <1>10 DEF PreparedHit, Prepare, Use
  <2>3. job'[g] = Used(job[g], t) /\ \A h \in Goroutines : h # g => job'[h] = job[h]
    BY <1>1, <2>2
  <2>4. Used(job[g], t).at \in {"compose", "lock", "chain", "publish", "option", "idle"}
    BY <1>1, <2>1 DEF Used, Idle, Purposes
  <2>5. ~Verifying(job'[g])
    BY <2>3, <2>4
  <2>6. UNCHANGED unit
    BY <1>10 DEF PreparedHit, Prepare
  <2> QED BY <2>1, <2>3, <2>5, <2>6
<1>6. CASE NextMember(g)
  BY <1>1, <1>6 DEF NextMember, Load
<1>7. CASE ProbeAbsent(g) \/ ServeCompiled(g)
  BY <1>1, <1>7 DEF ProbeAbsent, ServeCompiled, Dispatched, Ended, Idle
<1>8. CASE ComposeMemo(g) \/ ComposeFresh(g) \/ WalkParent(g) \/ LoadMacros(g)
  BY <1>1, <1>8 DEF ComposeMemo, ComposeFresh, WalkParent, LoadMacros, Load
<1>9. CASE Publish(g) \/ Body(g) \/ Option(g)
  BY <1>1, <1>9 DEF Publish, Body, Option, Load, Ended, Idle
<1> QED BY <1>2, <1>3, <1>4, <1>5, <1>6, <1>7, <1>8, <1>9, <1>10 DEF Render

LEMMA HeapsOnlyGrow ==
  ASSUME IInv, NEW g \in Goroutines, Render(g)
  PROVE  Grown
<1>1. HeapsTyped
  BY DEF IInv, Typed, HeapsTyped
<1>2. CASE CachePut(g)
  BY <1>1, <1>2, AppendProperties DEF CachePut, Grown, HeapsTyped, Modules, Templates
<1>3. CASE Prepare(g)
  BY <1>1, <1>3, AppendProperties DEF Prepare, Grown, HeapsTyped, Modules, Templates
<1>4. CASE parsed' = parsed /\ made' = made
  BY <1>1, <1>4 DEF Grown, HeapsTyped
<1>5. CachePut(g) \/ Prepare(g) \/ (parsed' = parsed /\ made' = made)
  BY DEF Render, memos, StartRender, CacheHit, CacheMiss, LoaderGet, LoadFails, PreparedHit,
         PreparedMiss, Lock, NextMember, Witness, Verdict, ProbeAbsent, ServeCompiled,
         ComposeMemo, ComposeFresh, WalkParent, LoadMacros, Publish, Body, Option
<1> QED BY <1>2, <1>3, <1>4, <1>5

(* A witness is not nil. *)
LEMMA WitnessNotNil ==
  ASSUME Typed, NEW w \in [MemberSet -> OrNone(Modules)]
  PROVE  w # None
<1>1. Modules \subseteq Nat
  BY DEF Typed, Modules
<1>2. w \in [MemberSet -> Nat \cup {None}]
  BY <1>1 DEF OrNone
<1> QED BY <1>2, LoadAssumption

LEMMA LockKeeps ==
  ASSUME IInv, UnitInv, NEW g \in Goroutines, Lock(g)
  PROVE  UnitInv'
<1> USE DEF Verifying, For, Loading, At
<1>1. /\ job \in [Goroutines -> Jobs] /\ holder = None
      /\ \A h \in Goroutines : ~Verifying(job[h])
  BY LoadAssumption DEF IInv, Typed, UnitInv, Lock
<1>2. /\ job'[g].at = "member" /\ job'[g].todo = Members
      /\ job'[g].recheck = (witness = None) /\ holder' = g
      /\ \A h \in Goroutines : h # g => job'[h] = job[h]
  BY <1>1 DEF Lock, Jobs
<1>3. /\ witness' = IF witness = None THEN [n \in MemberSet |-> None] ELSE witness
      /\ witness' \in OrNone([MemberSet -> OrNone(Modules)])'
      /\ parsed' = parsed /\ ok' = ok
  BY DEF Lock, UnitInv, OrNone, Modules, memos
<1>4. \A h \in Goroutines : Verifying(job[h])' <=> holder' = h
  BY <1>1, <1>2
<1>5. VerifyInv(job[g])'
  <2>1. \A n \in MemberSet : \E i \in DOMAIN Members : Members[i] = n
    BY DEF MemberSet
  <2>2. witness # None => Settled'
    BY <1>1, <1>3 DEF UnitInv, Settled, ByteEqual
  <2>3. CASE witness = None
    <3>1. witness' \in [MemberSet -> OrNone(Modules)]
      BY <1>3, <2>3 DEF OrNone
    <3>2. witness' # None
      BY <3>1, WitnessNotNil DEF IInv
    <3> QED BY <1>2, <2>1, <2>3, <3>2 DEF VerifyInv
  <2>4. CASE witness # None
    BY <1>2, <1>3, <2>1, <2>2, <2>4 DEF VerifyInv
  <2> QED BY <2>3, <2>4
<1> QED BY <1>2, <1>3, <1>4, <1>5, LoadAssumption DEF UnitInv

LEMMA WitnessKeeps ==
  ASSUME IInv, UnitInv, NEW g \in Goroutines, Witness(g)
  PROVE  UnitInv'
<1> USE DEF Verifying, For, Loading, At
<1>1. job \in [Goroutines -> Jobs] /\ Verifying(job[g]) /\ holder = g /\ VerifyInv(job[g])
  BY DEF IInv, Typed, UnitInv, Witness
<1>2. /\ job[g].todo # <<>> /\ job[g].name = Head(job[g].todo)
      /\ job[g].mod \in Modules /\ job[g].todo \in Seq(Names)
  BY <1>1 DEF IInv, JobInv, LoadInv, RootInv, Witness, Jobs
<1>3. /\ job'[g].at = "member" /\ job'[g].todo = Tail(job[g].todo) /\ holder' = g
      /\ job'[g].recheck = (job[g].recheck \/ witness[job[g].name] # job[g].mod)
      /\ \A h \in Goroutines : h # g => job'[h] = job[h]
  BY <1>1 DEF Witness, Jobs
<1>4. /\ witness' \in [MemberSet -> OrNone(Modules)]
      /\ witness' = [witness EXCEPT ![job[g].name] = job[g].mod] /\ Modules' = Modules
  BY <1>1, <1>2 DEF UnitInv, VerifyInv, Witness, OrNone, Modules, memos
<1>5. \A h \in Goroutines : Verifying(job[h])' <=> holder' = h
  BY <1>1, <1>3 DEF UnitInv
<1>6. VerifyInv(job[g])'
  <2>1. \A n \in MemberSet : witness'[n] # None \/ \E i \in DOMAIN job'[g].todo : job'[g].todo[i] = n
    <3> SUFFICES ASSUME NEW n \in MemberSet, n # job[g].name, witness[n] = None
                 PROVE  \E i \in DOMAIN Tail(job[g].todo) : Tail(job[g].todo)[i] = n
      <4>1. job[g].mod # None
        BY <1>2, LoadAssumption DEF Modules, IInv, Typed
      <4>2. \A n \in MemberSet : witness'[n] = IF n = job[g].name THEN job[g].mod ELSE witness[n]
        BY <1>1, <1>4 DEF UnitInv, VerifyInv, OrNone
      <4> QED BY <1>3, <4>1, <4>2
    <3>1. PICK i \in DOMAIN job[g].todo : job[g].todo[i] = n
      BY <1>1 DEF VerifyInv
    <3>2. i # 1 /\ i \in 1..Len(job[g].todo)
      BY <1>2, <3>1
    <3>3. i - 1 \in DOMAIN Tail(job[g].todo) /\ Tail(job[g].todo)[i - 1] = n
      BY <1>2, <3>1, <3>2, SMTT(30)
    <3> QED BY <3>3
  <2>2. ~job'[g].recheck => Settled'
    <3> SUFFICES ASSUME ~job[g].recheck, witness[job[g].name] = job[g].mod
                 PROVE  Settled'
      BY <1>3
    <3>1. witness' = witness /\ parsed' = parsed /\ ok' = ok
      BY <1>1, <1>4 DEF UnitInv, VerifyInv, OrNone, Witness, memos
    <3> QED BY <1>1, <3>1 DEF VerifyInv, Settled, ByteEqual
  <2>3. witness' # None
    BY <1>4, WitnessNotNil DEF IInv
  <2> QED BY <2>1, <2>2, <2>3 DEF VerifyInv
<1> QED BY <1>3, <1>4, <1>5, <1>6, LoadAssumption DEF UnitInv, OrNone

LEMMA VerdictKeeps ==
  ASSUME IInv, UnitInv, NEW g \in Goroutines, Verdict(g)
  PROVE  UnitInv'
<1> USE DEF Verifying, For, Loading, At
<1>1. /\ job \in [Goroutines -> Jobs] /\ Verifying(job[g]) /\ holder = g
      /\ VerifyInv(job[g]) /\ job[g].todo = <<>>
  BY DEF IInv, Typed, UnitInv, Verdict
<1>2. /\ job'[g].at \in {"compiled", "compose"} /\ holder' = None
      /\ witness' = witness /\ parsed' = parsed
      /\ \A h \in Goroutines : h # g => job'[h] = job[h]
  BY <1>1 DEF Verdict, Jobs, memos
<1>3. \A h \in Goroutines : Verifying(job[h])' <=> holder' = h
  BY <1>1, <1>2, LoadAssumption DEF UnitInv
<1>4. Settled'
  <2>1. \A n \in MemberSet : witness[n] # None
    BY <1>1 DEF VerifyInv
  <2>2. CASE job[g].recheck
    <3>1. ok' <=> \A n \in MemberSet : ByteEqual(n)
      BY <2>2 DEF Verdict
    <3> QED BY <1>2, <2>1, <3>1 DEF Settled, ByteEqual
  <2>3. CASE ~job[g].recheck
    <3>1. ok' = ok
      BY <2>3 DEF Verdict
    <3> QED BY <1>1, <1>2, <2>3, <3>1 DEF VerifyInv, Settled, ByteEqual
  <2> QED BY <2>2, <2>3
<1>5. witness' \in OrNone([MemberSet -> OrNone(Modules)])'
  BY <1>2 DEF UnitInv, OrNone, Modules
<1> QED BY <1>2, <1>3, <1>4, <1>5, LoadAssumption DEF UnitInv

LEMMA MemberFailsKeeps ==
  ASSUME IInv, UnitInv, NEW g \in Goroutines, LoadFails(g), MemberFails(g)
  PROVE  UnitInv'
<1> USE DEF Verifying, For, Loading, At
<1>1. job \in [Goroutines -> Jobs] /\ Verifying(job[g]) /\ holder = g
  BY DEF IInv, Typed, UnitInv, LoadFails, MemberFails
<1>2. /\ job'[g].at = "compose" /\ holder' = None /\ witness' = None
      /\ \A h \in Goroutines : h # g => job'[h] = job[h]
  BY <1>1 DEF MemberFails, Jobs
<1>3. \A h \in Goroutines : Verifying(job[h])' <=> holder' = h
  BY <1>1, <1>2, LoadAssumption DEF UnitInv
<1> QED BY <1>2, <1>3, LoadAssumption DEF UnitInv, OrNone

LEMMA UnitInvStep == IInv /\ IInv' /\ UnitInv /\ [Next]_vars => UnitInv'
<1> SUFFICES ASSUME IInv, IInv', UnitInv, [Next]_vars
             PROVE  UnitInv'
  OBVIOUS
<1>1. ASSUME Grown
      PROVE  HeapsGrow
  BY <1>1 DEF IInv, Typed, HeapsGrow, HeapsTyped
<1>2. ASSUME NEW g \in Goroutines, Render(g)
      PROVE  UnitInv'
  <2>1. CASE Lock(g) \/ Witness(g) \/ Verdict(g) \/ (LoadFails(g) /\ MemberFails(g))
    BY <2>1, LockKeeps, WitnessKeeps, VerdictKeeps, MemberFailsKeeps
  <2>2. CASE ~Lock(g) /\ ~Witness(g) /\ ~Verdict(g) /\ ~(LoadFails(g) /\ MemberFails(g))
    BY <1>1, <1>2, <2>2, StepsAside, AsideKeeps, HeapsOnlyGrow
  <2> QED BY <2>1, <2>2
<1>3. CASE UNCHANGED <<memos, unit, job>>
  BY <1>3 DEF UnitInv, Verifying, For, Loading, VerifyInv, Settled, ByteEqual, OrNone, Modules, memos, unit
<1> QED BY <1>2, <1>3 DEF Next, Edit, vars

LEMMA UnitInvariant == Spec => []UnitInv
<1>1. Init => UnitInv
  BY LoadAssumption DEF Init, UnitInv, Idle, Verifying, For, Loading, OrNone
<1> QED BY <1>1, UnitInvStep, LoadInvariant, PTL DEF Spec

(* Every pointer a job, a memo or the unit holds is an allocated one.        *)
THEOREM TypeCorrect == Spec => []TypeOK
<1>1. IInv /\ UnitInv => TypeOK
  BY DEF IInv, Typed, UnitInv, TypeOK
<1> QED BY <1>1, LoadInvariant, UnitInvariant, PTL

(* unitCoherent: whenever no one holds its mutex, the verdict of a unit is   *)
(* that of the very modules stored as its witness, whatever goroutines       *)
(* verified it in turn and whichever members failed to load.                 *)
THEOREM VerdictIsSound == Spec => []VerdictSound
<1>1. UnitInv => VerdictSound
  BY DEF UnitInv, Settled, VerdictSound
<1> QED BY <1>1, UnitInvariant, PTL

-----------------------------------------------------------------------------
(* A compiled unit serves what the interpreter would walk, if one goroutine  *)
(* renders, the loader serves every member and at most one optional include  *)
(* was left out: whatever the host edits between two renders or within one.  *)
(* Each of the three is needed: two goroutines that load a member at once    *)
(* leave a module in the cache that no witness holds, a failed import is     *)
(* memoized for good, and of two absent templates the first probed may       *)
(* appear while the second is probed.                                        *)

(* The namespace an import binds, when the unit writes the import out. *)
Bound(ns) == Import[Page] \in MemberSet => ns \in Templates /\ NameOf(ns) = Import[Page]

OneJob(j) ==
  /\ j.at \in {"read", "put"} => cache[j.name] = None
  /\ For(j, {"page"}) => j.name = Page
  /\ For(j, {"import"}) => j.name = Import[Page]
  /\ Rooted(j) => NameOf(j.tmpl) = Page
  /\ j.at = "publish" => Bound(j.ns)
  /\ j.at = "compiled" => ok /\ witness # None /\ j.todo \in {Absent, <<>>}

(* One module per name, and it is the cached one. *)
OneModule == \A m \in Modules : cache[parsed[m].name] = m
OneLoader == \A n \in Names : text[n] = None => n \in AbsentSet
OneWitness ==
  witness # None => \A n \in MemberSet : witness[n] # None => parsed[witness[n]].name = n
OneNamespace == \A t \in Templates : comp[t] # None => Bound(comp[t].ns)

OneInv ==
  OneModule /\ OneLoader /\ OneWitness /\ OneNamespace /\ \A g \in Goroutines : OneJob(job[g])

(* A single renderer: the goroutine g, which no outage and at most one       *)
(* absent template can disturb.                                              *)
Alone(g) == Goroutines = {g} /\ Outages = FALSE /\ Len(Absent) <= 1

-----------------------------------------------------------------------------
LEMMA OneQuiet ==
  ASSUME IInv, OneInv, NEW g, Alone(g), NEW k, OneJob(k),
         UNCHANGED <<loader, memos, unit>>, job' = [job EXCEPT ![g] = k]
  PROVE  OneInv'
<1> USE DEF OneInv, OneModule, OneLoader, OneWitness, OneNamespace
<1>1. /\ text' = text /\ parsed' = parsed /\ made' = made /\ comp' = comp
      /\ cache' = cache /\ witness' = witness /\ ok' = ok
  BY DEF loader, memos, unit
<1>2. OneJob(k)'
  BY <1>1 DEF OneJob, For, Loading, Rooted, Verifying, Composing, Composed, Bound, NameOf, Templates
<1>3. \A h \in Goroutines : job'[h] = k
  BY DEF Alone, IInv, Typed
<1>4. \A h \in Goroutines : OneJob(job[h])'
  BY <1>2, <1>3
<1>5. OneNamespace'
  BY <1>1 DEF Bound, NameOf, Templates
<1> QED BY <1>1, <1>4, <1>5 DEF Modules

LEMMA OneIdle == \A left : OneJob(Idle(left))
BY DEF Idle, OneJob, For, Loading, Rooted, Verifying, Composing, Composed

LEMMA OneLoad ==
  ASSUME IInv, OneInv, NEW g \in Goroutines, Alone(g),
         \/ StartRender(g) \/ CacheHit(g) \/ CacheMiss(g) \/ LoaderGet(g)
         \/ LoadFails(g) /\ ~MemberFails(g)
  PROVE  OneInv'
<1> DEFINE j == job[g]
<1> USE DEF At, OneJob, For, Loading, Rooted, Verifying, Composing, Composed
<1>1. job \in [Goroutines -> Jobs] /\ j \in Jobs /\ OneJob(j)
  BY DEF IInv, Typed, OneInv
<1>2. CASE StartRender(g)
  <2> DEFINE k == [Idle(j.left - 1) EXCEPT !.at = "get"]
  <2>1. OneJob(k)
    BY DEF Idle
  <2> QED BY <1>2, <2>1, OneQuiet DEF StartRender
<1>3. CASE CacheHit(g)
  <2> DEFINE k == [j EXCEPT !.at = "look", !.mod = cache[j.name]]
  <2>1. OneJob(k)
    BY <1>1, <1>3 DEF CacheHit, Jobs
  <2>2. job' = [job EXCEPT ![g] = k]
    BY <1>1, <1>3 DEF CacheHit
  <2> QED BY <1>3, <2>1, <2>2, OneQuiet DEF CacheHit
<1>4. CASE CacheMiss(g)
  <2> DEFINE k == [j EXCEPT !.at = "read"]
  <2>1. OneJob(k)
    BY <1>1, <1>4 DEF CacheMiss, Jobs
  <2>2. job' = [job EXCEPT ![g] = k]
    BY <1>1, <1>4 DEF CacheMiss
  <2> QED BY <1>4, <2>1, <2>2, OneQuiet DEF CacheMiss
<1>5. CASE LoaderGet(g)
  <2> DEFINE k == [j EXCEPT !.at = "put", !.src = text[j.name]]
  <2>1. OneJob(k)
    BY <1>1, <1>5 DEF LoaderGet, Jobs
  <2>2. job' = [job EXCEPT ![g] = k]
    BY <1>1, <1>5 DEF LoaderGet
  <2> QED BY <1>5, <2>1, <2>2, OneQuiet DEF LoaderGet
<1>6. CASE LoadFails(g) /\ ~MemberFails(g)
  <2>1. CASE RenderFails(g) \/ OptionFails(g)
    BY <1>1, <1>6, <2>1, OneIdle, OneQuiet DEF LoadFails, RenderFails, OptionFails, Ended
  <2>2. CASE ImportFails(g)
    <3> DEFINE k == [j EXCEPT !.at = "publish"]
    <3>1. Bound(j.ns)
      <4>1. j.name = Import[Page] /\ text[j.name] = None /\ j.name \in Names
        BY <1>1, <1>6, <2>2 DEF LoadFails, ImportFails, Jobs
      <4>2. Import[Page] \in AbsentSet
        BY <4>1 DEF OneInv, OneLoader
      <4> QED BY <4>2, UnitAssumption DEF Bound
    <3>2. OneJob(k)
      BY <1>1, <1>6, <2>2, <3>1 DEF LoadFails, ImportFails, Jobs
    <3>3. job' = [job EXCEPT ![g] = k]
      BY <1>1, <2>2 DEF ImportFails
    <3> QED BY <1>6, <2>2, <3>2, <3>3, OneQuiet DEF LoadFails, ImportFails
  <2> QED BY <1>6, <2>1, <2>2 DEF LoadFails
<1> QED BY <1>2, <1>3, <1>4, <1>5, <1>6

(* A job that uses a template of the name it asked for. *)
LEMMA UsedOne ==
  ASSUME NEW j \in Jobs, NEW t \in Templates, JobInv(j), OneJob(j),
         j.at \in {"look", "prepare"}, j.why # "member", NameOf(t) = j.name
  PROVE  OneJob(Used(j, t))
<1> USE DEF OneJob, For, Loading, Rooted, Verifying, Composing, Composed, Jobs
<1>1. CASE j.why = "page"
  BY <1>1 DEF Used
<1>2. CASE j.why = "parent"
  BY <1>2 DEF Used
<1>3. CASE j.why = "import"
  BY <1>3 DEF Used, Bound
<1>4. CASE j.why = "include"
  BY <1>4 DEF Used
<1>5. CASE j.why = "option"
  BY <1>5, OneIdle DEF Used
<1> QED BY <1>1, <1>2, <1>3, <1>4, <1>5 DEF Purposes

UsesKeepOne ==
  \A j \in Jobs, t \in Templates :
    /\ JobInv(j) /\ OneJob(j) /\ j.at \in {"look", "prepare"} /\ j.why # "member"
    /\ NameOf(t) = j.name
    => OneJob(Used(j, t))

LEMMA UsesOne == UsesKeepOne
BY UsedOne DEF UsesKeepOne

LEMMA OneLookup ==
  ASSUME IInv, OneInv, NEW g \in Goroutines, Alone(g), PreparedHit(g) \/ PreparedMiss(g)
  PROVE  OneInv'
<1> DEFINE j == job[g]
<1>1. job \in [Goroutines -> Jobs] /\ j \in Jobs /\ OneJob(j) /\ JobInv(j)
  BY DEF IInv, Typed, OneInv
<1>2. CASE PreparedHit(g)
  <2> DEFINE t == prepared[j.name].tmpl
  <2>1. t \in Templates /\ NameOf(t) = j.name
    BY <1>1, <1>2 DEF PreparedHit, Memoized, IInv, Typed, MemoInv, Jobs, OrNone, NameOf
  <2>2. j.at \in {"look", "prepare"} /\ j.why # "member" /\ Use(g, t)
    BY <1>2 DEF PreparedHit, Looks, At
  <2>3. OneJob(Used(j, t))
    BY <1>1, <2>1, <2>2, UsedOne
  <2> QED BY <1>2, <2>2, <2>3, OneQuiet DEF PreparedHit, Use
<1>3. CASE PreparedMiss(g)
  <2> DEFINE k == [j EXCEPT !.at = "prepare"]
  <2>1. OneJob(k)
    BY <1>1, <1>3 DEF PreparedMiss, Looks, At, Jobs, OneJob, For, Loading, Rooted, Verifying, Composing, Composed
  <2>2. job' = [job EXCEPT ![g] = k]
    BY <1>1, <1>3 DEF PreparedMiss
  <2> QED BY <1>3, <2>1, <2>2, OneQuiet DEF PreparedMiss
<1> QED BY <1>2, <1>3

LEMMA OneDispatch ==
  ASSUME IInv, OneInv, NEW g \in Goroutines, Alone(g),
         NextMember(g) \/ ProbeAbsent(g) \/ ServeCompiled(g)
  PROVE  OneInv'
<1> DEFINE j == job[g]
<1> USE DEF At, OneJob, For, Loading, Rooted, Verifying, Composing, Composed
<1>1. job \in [Goroutines -> Jobs] /\ j \in Jobs /\ OneJob(j)
  BY DEF IInv, Typed, OneInv
<1>2. CASE NextMember(g)
  <2> DEFINE k == [j EXCEPT !.at = "get", !.name = Head(j.todo), !.why = "member"]
  <2>1. OneJob(k)
    BY <1>1, <1>2 DEF NextMember, Jobs
  <2>2. job' = [job EXCEPT ![g] = k]
    BY <1>1, <1>2 DEF NextMember, Load
  <2> QED BY <1>2, <2>1, <2>2, OneQuiet DEF NextMember
<1>3. CASE ProbeAbsent(g)
  <2> DEFINE k == IF Exists(Head(j.todo)) THEN [j EXCEPT !.at = "compose", !.todo = <<>>]
                  ELSE [j EXCEPT !.todo = Tail(j.todo)]
  <2>1. j.at = "compiled" /\ j.todo = Absent /\ Absent # <<>>
    BY <1>1, <1>3 DEF ProbeAbsent
  <2>2. Tail(j.todo) = <<>>
    BY <2>1, LoadAssumption DEF Alone
  <2>3. OneJob(k)
    BY <1>1, <2>1, <2>2 DEF Jobs
  <2>4. job' = [job EXCEPT ![g] = k]
    BY <1>1, <1>3 DEF ProbeAbsent
  <2>5. UNCHANGED <<loader, memos, unit>>
    BY <1>3 DEF ProbeAbsent
  <2> HIDE DEF k, OneJob
  <2> QED BY <2>3, <2>4, <2>5, OneQuiet
<1>4. CASE ServeCompiled(g)
  BY <1>4, OneIdle, OneQuiet DEF ServeCompiled, Ended
<1> QED BY <1>2, <1>3, <1>4

LEMMA OneCompose ==
  ASSUME IInv, OneInv, NEW g \in Goroutines, Alone(g),
         \/ ComposeMemo(g) \/ ComposeFresh(g) \/ WalkParent(g) \/ LoadMacros(g)
         \/ Body(g) \/ Option(g)
  PROVE  OneInv'
<1> DEFINE j == job[g]
<1> USE DEF At, OneJob, For, Loading, Rooted, Verifying, Composing, Composed
<1>1. job \in [Goroutines -> Jobs] /\ j \in Jobs /\ OneJob(j)
  BY DEF IInv, Typed, OneInv
<1>2. ASSUME NEW n, NEW p \in {"parent", "import", "include", "option"}, Load(g, n, p),
             UNCHANGED <<loader, memos, unit>>, Rooted(j), p = "import" => n = Import[Page]
      PROVE  OneInv'
  <2> DEFINE k == [j EXCEPT !.at = "get", !.name = n, !.why = p]
  <2>1. OneJob(k)
    BY <1>1, <1>2 DEF Jobs
  <2>2. job' = [job EXCEPT ![g] = k]
    BY <1>1, <1>2 DEF Load
  <2> QED BY <1>2, <2>1, <2>2, OneQuiet
<1>3. CASE ComposeMemo(g)
  <2> DEFINE m == comp[j.tmpl]
             k == [j EXCEPT !.at = "body", !.chain = m.chain, !.ns = m.ns]
  <2>1. OneJob(k)
    BY <1>1, <1>3 DEF ComposeMemo, Jobs
  <2>2. job' = [job EXCEPT ![g] = k]
    BY <1>1, <1>3 DEF ComposeMemo
  <2> QED BY <1>3, <2>1, <2>2, OneQuiet DEF ComposeMemo
<1>4. CASE ComposeFresh(g)
  <2> DEFINE k == [j EXCEPT !.at = "chain", !.chain = <<j.tmpl>>]
  <2>1. OneJob(k)
    BY <1>1, <1>4 DEF ComposeFresh, Jobs
  <2>2. job' = [job EXCEPT ![g] = k]
    BY <1>1, <1>4 DEF ComposeFresh
  <2> QED BY <1>4, <2>1, <2>2, OneQuiet DEF ComposeFresh
<1>5. CASE WalkParent(g)
  <2>1. /\ Rooted(j) /\ Load(g, Parent[Top(g)], "parent")
        /\ UNCHANGED <<loader, memos, unit>>
    BY <1>5 DEF WalkParent
  <2> QED BY <1>2, <2>1
<1>6. CASE LoadMacros(g)
  <2>1. Rooted(j)
    BY <1>6 DEF LoadMacros
  <2>2. CASE Import[Page] # None
    BY <1>2, <1>6, <2>1, <2>2 DEF LoadMacros
  <2>3. CASE Import[Page] = None
    <3> DEFINE k == [j EXCEPT !.at = "publish"]
    <3>1. Bound(j.ns)
      BY <2>3, LoadAssumption DEF Bound, MemberSet
    <3>2. OneJob(k)
      BY <1>1, <1>6, <3>1 DEF LoadMacros, Jobs
    <3>3. job' = [job EXCEPT ![g] = k]
      BY <1>1, <1>6, <2>3 DEF LoadMacros
    <3> QED BY <1>6, <3>2, <3>3, OneQuiet DEF LoadMacros
  <2> QED BY <2>2, <2>3
<1>7. CASE Body(g)
  <2>1. Rooted(j)
    BY <1>7 DEF Body
  <2>2. CASE Include[Top(g)] # None
    BY <1>2, <1>7, <2>1, <2>2 DEF Body
  <2>3. CASE Include[Top(g)] = None
    <3> DEFINE k == [j EXCEPT !.at = "option"]
    <3>1. OneJob(k)
      BY <1>1, <1>7 DEF Body, Jobs
    <3>2. job' = [job EXCEPT ![g] = k]
      BY <1>1, <1>7, <2>3 DEF Body
    <3> QED BY <1>7, <3>1, <3>2, OneQuiet DEF Body
  <2> QED BY <2>2, <2>3
<1>8. CASE Option(g)
  <2> DEFINE n == Optional[Top(g)]
  <2>1. Rooted(j) /\ UNCHANGED <<loader, memos, unit>>
    BY <1>8 DEF Option
  <2>2. CASE n # None /\ Exists(n)
    <3>1. Load(g, n, "option")
      BY <1>8, <2>2 DEF Option
    <3> QED BY <1>2, <2>1, <3>1
  <2>3. CASE ~(n # None /\ Exists(n))
    <3>1. job' = [job EXCEPT ![g] = Idle(j.left)]
      BY <1>8, <2>3 DEF Option, Ended
    <3> QED BY <2>1, <3>1, OneIdle, OneQuiet
  <2> QED BY <2>2, <2>3
<1> QED BY <1>3, <1>4, <1>5, <1>6, <1>7, <1>8

-----------------------------------------------------------------------------
(* The steps that verify the unit *)

(* A step of g that leaves the loader and the memos alone. *)
LEMMA OneUnitStep ==
  ASSUME IInv, OneInv, NEW g, Alone(g), NEW k, UNCHANGED <<loader, memos>>,
         job' = [job EXCEPT ![g] = k], OneJob(k)', OneWitness'
  PROVE  OneInv'
<1>1. /\ text' = text /\ parsed' = parsed /\ made' = made /\ comp' = comp /\ cache' = cache
  BY DEF loader, memos
<1>2. \A h \in Goroutines : job'[h] = k
  BY DEF Alone, IInv, Typed
<1>3. \A h \in Goroutines : OneJob(job[h])'
  BY <1>2
<1>4. OneModule' /\ OneLoader' /\ OneNamespace'
  BY <1>1 DEF OneInv, OneModule, OneLoader, OneNamespace, Bound, NameOf, Templates, Modules
<1> QED BY <1>3, <1>4 DEF OneInv

LEMMA OneVerify ==
  ASSUME IInv, UnitInv, OneInv, NEW g \in Goroutines, Alone(g),
         Lock(g) \/ Witness(g) \/ Verdict(g) \/ (LoadFails(g) /\ MemberFails(g))
  PROVE  OneInv'
<1> USE DEF At, For, Loading, Rooted, Verifying, Composing, Composed
<1>1. PICK j : j = job[g]
  OBVIOUS
<1>2. job \in [Goroutines -> Jobs] /\ j \in Jobs /\ OneJob(j) /\ JobInv(j)
  BY <1>1 DEF IInv, Typed, OneInv
<1>3. UNCHANGED <<loader, memos>>
  BY DEF Lock, Witness, Verdict, LoadFails, MemberFails
<1>4. \A t : NameOf(t)' = NameOf(t)
  BY <1>3 DEF memos, NameOf
<1>5. CASE Lock(g)
  <2>1. PICK k : k = [j EXCEPT !.at = "member", !.todo = Members, !.recheck = (witness = None)]
    OBVIOUS
  <2>2. job' = [job EXCEPT ![g] = k]
    BY <1>1, <1>2, <1>5, <2>1 DEF Lock
  <2>3. OneJob(k)'
    BY <1>1, <1>2, <1>4, <1>5, <2>1 DEF Lock, Jobs, OneJob
  <2>4. OneWitness'
    BY <1>3, <1>5 DEF Lock, OneInv, OneWitness, memos
  <2> QED BY <1>3, <2>2, <2>3, <2>4, OneUnitStep
<1>6. CASE Witness(g)
  <2>1. PICK k : k = [j EXCEPT !.at = "member", !.todo = Tail(j.todo),
                               !.recheck = j.recheck \/ witness[j.name] # j.mod]
    OBVIOUS
  <2>2. job' = [job EXCEPT ![g] = k]
    BY <1>1, <1>2, <1>6, <2>1 DEF Witness
  <2>3. OneJob(k)'
    BY <1>1, <1>2, <1>4, <1>6, <2>1 DEF Witness, Jobs, OneJob
  <2>4. OneWitness'
    <3>1. witness # None /\ witness \in [MemberSet -> OrNone(Modules)]
      BY <1>1, <1>6 DEF Witness, UnitInv, VerifyInv, OrNone
    <3>2. parsed[j.mod].name = j.name
      BY <1>1, <1>2, <1>6 DEF Witness, JobInv, LoadInv
    <3>3. witness' = [witness EXCEPT ![j.name] = j.mod] /\ parsed' = parsed
      BY <1>1, <1>6 DEF Witness, memos
    <3> QED BY <3>1, <3>2, <3>3 DEF OneInv, OneWitness
  <2> QED BY <1>3, <2>2, <2>3, <2>4, OneUnitStep
<1>7. CASE Verdict(g)
  <2>1. PICK k : k = [j EXCEPT !.at = IF ok' THEN "compiled" ELSE "compose",
                               !.todo = IF ok' THEN Absent ELSE <<>>]
    OBVIOUS
  <2>2. job' = [job EXCEPT ![g] = k]
    BY <1>1, <1>2, <1>7, <2>1 DEF Verdict
  <2>3. OneJob(k)'
    <3>1. witness' # None
      BY <1>7 DEF Verdict, UnitInv, VerifyInv
    <3>2. j.at = "member" /\ k.at \in {"compiled", "compose"} /\ k.tmpl = j.tmpl
      BY <1>1, <1>2, <1>7, <2>1 DEF Verdict, Jobs
    <3>3. k.at = "compiled" => ok' /\ k.todo = Absent
      BY <1>2, <2>1 DEF Jobs
    <3> QED BY <1>2, <1>4, <3>1, <3>2, <3>3 DEF OneJob
  <2>4. OneWitness'
    BY <1>3, <1>7 DEF Verdict, OneInv, OneWitness, memos
  <2> QED BY <1>3, <2>2, <2>3, <2>4, OneUnitStep
<1>8. CASE LoadFails(g) /\ MemberFails(g)
  <2>1. PICK k : k = [j EXCEPT !.at = "compose"]
    OBVIOUS
  <2>2. job' = [job EXCEPT ![g] = k]
    BY <1>1, <1>2, <1>8, <2>1 DEF MemberFails
  <2>3. OneJob(k)'
    BY <1>1, <1>2, <1>4, <1>8, <2>1 DEF LoadFails, MemberFails, Jobs, OneJob
  <2>4. OneWitness'
    BY <1>8 DEF MemberFails, OneWitness
  <2> QED BY <1>3, <2>2, <2>3, <2>4, OneUnitStep
<1> QED BY <1>5, <1>6, <1>7, <1>8

-----------------------------------------------------------------------------
(* The steps that change a heap, a memo or what the loader serves *)

LEMMA GrownBound ==
  ASSUME HeapsTyped, HeapsTyped', Grown
  PROVE  \A ns : Bound(ns) => Bound(ns)'
BY GrownNames DEF Bound

(* What holds of a grown heap whose cache and compositions are as they were. *)
LEMMA GrownOne ==
  ASSUME IInv, OneInv, HeapsTyped', Grown, NEW j \in Jobs, JobInv(j), OneJob(j),
         ok' = ok, witness' = witness
  PROVE  /\ cache' = cache => OneJob(j)'
         /\ Rooted(j) => NameOf(j.tmpl)' = NameOf(j.tmpl)
         /\ \A n \in MemberSet : witness # None /\ witness[n] # None /\ witness[n] \in Modules =>
              parsed'[witness[n]].name = n
<1>1. HeapsTyped
  BY DEF IInv, Typed, HeapsTyped
<1>2. Rooted(j) => j.tmpl \in Templates /\ NameOf(j.tmpl)' = NameOf(j.tmpl)
  BY <1>1, GrownNames DEF JobInv, RootInv
<1>3. Bound(j.ns) => Bound(j.ns)'
  BY <1>1, GrownBound
<1>4. cache' = cache => OneJob(j)'
  BY <1>2, <1>3 DEF OneJob, For, Loading, Rooted, Verifying, Composing, Composed
<1> QED BY <1>2, <1>4 DEF OneInv, OneWitness, Grown

LEMMA OneCachePut ==
  ASSUME IInv, UnitInv, OneInv, NEW g \in Goroutines, Alone(g), CachePut(g)
  PROVE  OneInv'
<1> DEFINE m == Len(parsed) + 1
<1>1. PICK j : j = job[g]
  OBVIOUS
<1>2. PICK k : k = [j EXCEPT !.at = "look", !.mod = m, !.src = None]
  OBVIOUS
<1>3. /\ HeapsTyped /\ job \in [Goroutines -> Jobs] /\ j \in Jobs /\ JobInv(j) /\ OneJob(j)
      /\ j.at = "put" /\ j.name \in Names /\ j.src \in Texts /\ cache[j.name] = None
  BY <1>1 DEF IInv, Typed, OneInv, OneJob, HeapsTyped, CachePut, At, Jobs, JobInv, LoadInv
<1>4. /\ parsed' \in Seq([name : Names, text : Texts])
      /\ Len(parsed') = m /\ parsed'[m] = [name |-> j.name, text |-> j.src]
      /\ \A i \in 1..Len(parsed) : parsed'[i] = parsed[i]
  <2>1. [name |-> j.name, text |-> j.src] \in [name : Names, text : Texts]
    BY <1>3
  <2> QED BY <1>1, <1>3, <2>1, AppendProperties DEF CachePut, HeapsTyped
<1>5. Modules = 1..Len(parsed) /\ Modules' = 1..m /\ m \in Nat /\ Len(parsed) \in Nat
  BY <1>3, <1>4 DEF Modules, HeapsTyped
<1>6. /\ Templates' = Templates /\ made' = made /\ comp' = comp /\ text' = text
      /\ witness' = witness /\ ok' = ok /\ made' \in Seq(Modules')
      /\ cache' = [cache EXCEPT ![j.name] = m] /\ job' = [job EXCEPT ![g] = k]
  <2>1. made' = made /\ comp' = comp /\ text' = text /\ witness' = witness /\ ok' = ok
    BY DEF CachePut, unit, loader
  <2>2. made' \in Seq(Modules')
    BY <1>3, <1>5, <2>1 DEF HeapsTyped
  <2>3. cache' = [cache EXCEPT ![j.name] = m] /\ job' = [job EXCEPT ![g] = k]
    BY <1>1, <1>2, <1>3, <1>4 DEF CachePut
  <2> QED BY <2>1, <2>2, <2>3 DEF Templates
<1>7. HeapsTyped' /\ Grown
  BY <1>3, <1>4, <1>5, <1>6 DEF HeapsTyped, Grown
<1>8. OneModule'
  <2> SUFFICES ASSUME NEW i \in Modules'
               PROVE  cache'[parsed'[i].name] = i
    BY DEF OneModule
  <2>1. CASE i = m
    BY <1>3, <1>4, <1>6, <2>1 DEF IInv, Typed
  <2>2. CASE i # m
    <3>1. i \in Modules /\ parsed'[i] = parsed[i] /\ i # None
      BY <1>4, <1>5, <2>2, LoadAssumption
    <3>2. cache[parsed[i].name] = i
      BY <3>1 DEF OneInv, OneModule
    <3>3. parsed[i].name # j.name
      BY <1>3, <3>1, <3>2
    <3> QED BY <1>6, <3>1, <3>2, <3>3
  <2> QED BY <2>1, <2>2
<1>9. OneLoader' /\ OneNamespace'
  BY <1>3, <1>6, <1>7, GrownBound DEF OneInv, OneLoader, OneNamespace
<1>10. OneWitness'
  BY <1>3, <1>6, <1>7, GrownOne DEF OneWitness, UnitInv, OrNone
<1>11. OneJob(k)'
  <2>1. Rooted(j) => NameOf(j.tmpl)' = NameOf(j.tmpl)
    BY <1>3, <1>6, <1>7, GrownOne
  <2> QED BY <1>2, <1>3, <2>1 DEF Jobs, OneJob, For, Loading, Rooted, Verifying, Composing, Composed
<1>12. \A h \in Goroutines : job'[h] = k
  BY <1>3, <1>6 DEF Alone
<1> QED BY <1>8, <1>9, <1>10, <1>11, <1>12 DEF OneInv

LEMMA OnePrepare ==
  ASSUME IInv, IInv', UnitInv, OneInv, NEW g \in Goroutines, Alone(g), Prepare(g)
  PROVE  OneInv'
<1>0. PICK t : t = Len(made) + 1
  OBVIOUS
<1>1. PICK j : j = job[g]
  OBVIOUS
<1>2. /\ HeapsTyped /\ HeapsTyped' /\ job \in [Goroutines -> Jobs] /\ j \in Jobs
      /\ JobInv(j) /\ OneJob(j) /\ j.at = "prepare" /\ j.why # "member"
      /\ j.mod \in Modules /\ parsed[j.mod].name = j.name
  BY <1>1 DEF IInv, Typed, OneInv, HeapsTyped, Prepare, At, Jobs, JobInv, LoadInv
<1>3. /\ made' \in Seq(Modules) /\ Len(made') = t /\ made'[t] = j.mod
      /\ \A i \in 1..Len(made) : made'[i] = made[i]
  BY <1>0, <1>1, <1>2, AppendProperties DEF Prepare, HeapsTyped
<1>4. Templates = 1..Len(made) /\ Templates' = 1..t /\ t \in Nat
  BY <1>0, <1>2, <1>3 DEF Templates, HeapsTyped
<1>5. /\ Modules' = Modules /\ parsed' = parsed /\ cache' = cache /\ text' = text
      /\ witness' = witness /\ ok' = ok
  BY DEF Prepare, Modules, unit, loader
<1>6. Grown
  BY <1>0, <1>2, <1>3, <1>4, <1>5 DEF HeapsTyped, Grown
<1>7. comp'[t] = None /\ \A i \in 1..Len(made) : comp'[i] = comp[i]
  BY <1>0, AppendProperties DEF Prepare, IInv, Typed
<1>8. OneModule' /\ OneLoader' /\ OneWitness'
  BY <1>5 DEF OneInv, OneModule, OneLoader, OneWitness
<1>9. OneNamespace'
  <2> SUFFICES ASSUME NEW u \in Templates', comp'[u] # None
               PROVE  Bound(comp[u].ns)'
    BY DEF OneNamespace
  <2>1. PICK ns : ns = comp[u].ns
    OBVIOUS
  <2>2. u \in Templates /\ comp'[u] = comp[u]
    BY <1>0, <1>2, <1>4, <1>7 DEF HeapsTyped
  <2>3. Bound(ns)'
    BY <1>2, <1>6, <2>1, <2>2, GrownBound DEF OneInv, OneNamespace
  <2> QED BY <2>1, <2>2, <2>3
<1>10. PICK k : k = Used(j, t)
  OBVIOUS
<1>11. OneJob(k)'
  <2>1. (j \in Jobs)' /\ JobInv(j)'
    BY <1>2, <1>6, GrownJob
  <2>2. OneJob(j)'
    BY <1>2, <1>5, <1>6, GrownOne
  <2>3. NameOf(t)' = j.name /\ t \in Templates'
    <3>1. t \in 1..t
      BY <1>0, <1>2 DEF HeapsTyped
    <3>2. parsed'[made'[t]].name = j.name
      BY <1>2, <1>3, <1>5
    <3> QED BY <1>4, <3>1, <3>2 DEF NameOf
  <2>4. UsesKeepOne'
    BY UsesOne, PTL
  <2> QED BY <1>2, <1>10, <2>1, <2>2, <2>3, <2>4 DEF UsesKeepOne
<1>12. job' = [job EXCEPT ![g] = k]
  BY <1>1, <1>3, <1>10 DEF Prepare, Use
<1>13. \A h \in Goroutines : job'[h] = k
  BY <1>2, <1>12 DEF Alone
<1> QED BY <1>8, <1>9, <1>11, <1>13 DEF OneInv

LEMMA OnePublish ==
  ASSUME IInv, OneInv, NEW g \in Goroutines, Alone(g), Publish(g)
  PROVE  OneInv'
<1>1. PICK j : j = job[g]
  OBVIOUS
<1>2. PICK k : k = [j EXCEPT !.at = "body"]
  OBVIOUS
<1>3. /\ job \in [Goroutines -> Jobs] /\ j \in Jobs /\ OneJob(j) /\ j.at = "publish"
  BY <1>1 DEF IInv, Typed, OneInv, Publish, At
<1>4. /\ Modules' = Modules /\ Templates' = Templates /\ parsed' = parsed /\ made' = made
      /\ cache' = cache /\ text' = text /\ witness' = witness /\ ok' = ok
  BY DEF Publish, Modules, Templates, unit, loader
<1>5. comp' = [comp EXCEPT ![j.tmpl] = [chain |-> j.chain, ns |-> j.ns]]
  BY <1>1 DEF Publish
<1>6. OneModule' /\ OneLoader' /\ OneWitness'
  BY <1>4 DEF OneInv, OneModule, OneLoader, OneWitness
<1>7. OneNamespace'
  <2>1. Bound(j.ns)
    BY <1>3 DEF OneJob
  <2>2. \A ns : Bound(ns) => Bound(ns)'
    BY <1>4 DEF Bound, NameOf
  <2>3. \A t \in Templates : comp'[t].ns = IF t = j.tmpl THEN j.ns ELSE comp[t].ns
    BY <1>5 DEF IInv, Typed, Templates
  <2>4. \A t \in Templates : t # j.tmpl => comp'[t] = comp[t]
    BY <1>5 DEF IInv, Typed, Templates
  <2>5. ASSUME NEW t \in Templates', comp'[t] # None
        PROVE  Bound(comp[t].ns)'
    <3>1. PICK ns : ns = comp'[t].ns
      OBVIOUS
    <3>2. Bound(ns)
      BY <1>4, <2>1, <2>3, <2>4, <2>5, <3>1 DEF OneInv, OneNamespace
    <3> QED BY <2>2, <3>1, <3>2
  <2> QED BY <2>5 DEF OneNamespace
<1>8. OneJob(k)'
  BY <1>2, <1>3, <1>4 DEF Jobs, OneJob, For, Loading, Rooted, Verifying, Composing, Composed, NameOf
<1>9. \A h \in Goroutines : job'[h] = k
  BY <1>1, <1>2, <1>3 DEF Publish, Alone
<1> QED BY <1>6, <1>7, <1>8, <1>9 DEF OneInv

LEMMA OneEdit ==
  ASSUME IInv, OneInv, Outages = FALSE, NEW n \in Names, NEW v \in Serves(n), Edit(n, v)
  PROVE  OneInv'
<1>1. OneLoader'
  BY LoadAssumption DEF Edit, Serves, IInv, Typed, OneInv, OneLoader
<1>2. OneModule' /\ OneWitness' /\ OneNamespace'
  BY DEF Edit, memos, unit, OneInv, OneModule, OneWitness, OneNamespace, Bound, NameOf, Templates, Modules
<1>3. \A h \in Goroutines : OneJob(job[h])'
  BY DEF Edit, memos, unit, OneInv, OneJob, For, Loading, Rooted, Verifying, Composing, Composed,
         Bound, NameOf, Templates
<1> QED BY <1>1, <1>2, <1>3 DEF OneInv

LEMMA OneInvStep ==
  ASSUME IInv, IInv', UnitInv, OneInv, NEW g, Alone(g), [Next]_vars
  PROVE  OneInv'
<1>1. CASE \E h \in Goroutines : Render(h)
  <2>1. g \in Goroutines /\ Render(g)
    BY <1>1 DEF Alone
  <2> QED BY <2>1, OneLoad, OneLookup, OneDispatch, OneCompose, OneVerify, OneCachePut,
             OnePrepare, OnePublish DEF Render
<1>2. CASE \E n \in Names : \E v \in Serves(n) : Edit(n, v)
  BY <1>2, OneEdit DEF Alone
<1>3. CASE UNCHANGED vars
  BY <1>3 DEF vars, loader, memos, unit, OneInv, OneModule, OneLoader, OneWitness, OneNamespace,
     OneJob, For, Loading, Rooted, Verifying, Composing, Composed, Bound, NameOf, Templates, Modules
<1> QED BY <1>1, <1>2, <1>3 DEF Next

LEMMA OneInvariant ==
  ASSUME NEW g, Alone(g)
  PROVE  Spec => []OneInv
<1>1. Init => OneInv
  BY OneIdle DEF Init, OneInv, OneModule, OneLoader, OneWitness, OneNamespace, Modules, Templates
<1>2. IInv /\ IInv' /\ UnitInv /\ OneInv /\ [Next]_vars => OneInv'
  BY OneInvStep
<1> QED BY <1>1, <1>2, LoadInvariant, UnitInvariant, PTL DEF Spec

-----------------------------------------------------------------------------
(* What a dispatched render serves *)

(* The names of a memoized chain are closed under parents and end once. *)
ChainOf(t) == {NameOf(comp[t].chain[i]) : i \in DOMAIN comp[t].chain}

LEMMA ChainNames ==
  ASSUME IInv, NEW t \in Templates, comp[t] # None, NameOf(t) = Page,
         NEW names, names = ChainOf(t)
  PROVE  /\ names \in SUBSET Names
         /\ Page \in names
         /\ \A n \in names : Parent[n] \in names \cup {None}
         /\ \A n \in names : Parent[n] = None => n = NameOf(comp[t].chain[Len(comp[t].chain)])
<1> DEFINE c == comp[t].chain
<1>1. c \in Seq(Templates) /\ c # <<>> /\ c[1] = t /\ Linked(c) /\ Ends(c)
  BY MemoChains DEF IInv, ChainFrom
<1> HIDE DEF c
<1>2. \A i \in DOMAIN c : c[i] \in Templates /\ NameOf(c[i]) \in Names
  <2>1. HeapsTyped /\ \A u \in Templates : NameOf(u) \in Names
    <3>1. ASSUME NEW u \in Templates
          PROVE  NameOf(u) \in Names
      <4>1. made[u] \in 1..Len(parsed)
        BY ElementOfSeq DEF IInv, Typed, Templates, Modules
      <4>2. parsed[made[u]] \in [name : Names, text : Texts]
        BY <4>1, ElementOfSeq DEF IInv, Typed
      <4> QED BY <4>2 DEF NameOf
    <3> QED BY <3>1 DEF IInv, Typed, HeapsTyped
  <2> QED BY <1>1, <2>1
<1>3. Len(c) \in 1..Len(c) /\ 1 \in 1..Len(c) /\ DOMAIN c = 1..Len(c) /\ Len(c) \in Nat
  BY <1>1
<1>4. names = {NameOf(c[i]) : i \in DOMAIN c}
  BY DEF c, ChainOf
<1>5. ASSUME NEW i \in DOMAIN c, i # Len(c)
      PROVE  i + 1 \in DOMAIN c /\ Parent[NameOf(c[i])] = NameOf(c[i + 1])
  BY <1>1, <1>3, <1>5 DEF Linked
<1>6. Parent[NameOf(c[Len(c)])] = None
  BY <1>1 DEF Ends
<1>7. ASSUME NEW n \in names
      PROVE  /\ Parent[n] \in names \cup {None}
             /\ Parent[n] = None => n = NameOf(c[Len(c)])
  <2>1. PICK i \in DOMAIN c : n = NameOf(c[i])
    BY <1>4
  <2>2. CASE i = Len(c)
    BY <1>6, <2>1, <2>2
  <2>3. CASE i # Len(c)
    <3>1. i + 1 \in DOMAIN c /\ Parent[n] = NameOf(c[i + 1])
      BY <1>5, <2>1, <2>3
    <3>2. Parent[n] \in names /\ Parent[n] \in Names
      BY <1>2, <1>4, <3>1
    <3> QED BY <3>2, LoadAssumption
  <2> QED BY <2>2, <2>3
<1> QED BY <1>1, <1>2, <1>3, <1>4, <1>7 DEF c

(* Every module of a member's name has the text the unit was compiled from. *)
LEMMA MembersMatch ==
  ASSUME IInv, UnitInv, OneInv, NEW g, Alone(g), Dispatched(g)
  PROVE  /\ \A n \in MemberSet : parsed[cache[n]].text = UnitText[n]
         /\ \A n \in MemberSet, m \in Modules :
              parsed[m].name = n => parsed[m].text = UnitText[n]
<1>1. g \in Goroutines /\ OneJob(job[g]) /\ job[g].at = "compiled"
  BY DEF Alone, OneInv, Dispatched, At
<1>2. ok /\ witness # None /\ holder = None
  BY <1>1 DEF OneJob, UnitInv, Verifying, For, Loading, IInv, Typed, OrNone, Alone
<1>3. Settled
  BY <1>2 DEF UnitInv
<1>4. ASSUME NEW n \in MemberSet
      PROVE  cache[n] = witness[n] /\ parsed[witness[n]].text = UnitText[n]
  <2>1. witness[n] # None /\ ByteEqual(n)
    BY <1>2, <1>3 DEF Settled
  <2>2. witness[n] \in Modules /\ parsed[witness[n]].name = n
    BY <1>2, <2>1 DEF UnitInv, OrNone, OneInv, OneWitness
  <2> QED BY <2>1, <2>2 DEF OneInv, OneModule, ByteEqual
<1> QED BY <1>4 DEF OneInv, OneModule

LEMMA DispatchedWalk ==
  ASSUME IInv, UnitInv, OneInv, NEW g, Alone(g), Dispatched(g), NEW n \in MemberSet
  PROVE  Walked(g, n) = UnitText[n]
<1>0. PICK t : t = job[g].tmpl
  OBVIOUS
<1> DEFINE c == comp[t]
           composed == {c.chain[i] : i \in DOMAIN c.chain} \cup {c.ns}
           found == {u \in composed \ {None} : NameOf(u) = n}
<1>1. t \in Templates /\ NameOf(t) = Page
  BY <1>0 DEF Alone, OneInv, OneJob, IInv, JobInv, RootInv, Rooted, Dispatched, At
<1>2. \A u \in Templates : made[u] \in Modules
  BY ElementOfSeq DEF IInv, Typed, Templates
<1>3. CASE n = Page
  BY <1>0, <1>1, <1>2, <1>3, MembersMatch DEF Walked, NameOf
<1>4. CASE n # Page /\ (c = None \/ n = Include[NameOf(c.chain[Len(c.chain)])])
  BY <1>0, <1>4, MembersMatch DEF Walked
<1>5. CASE n # Page /\ c # None /\ n # Include[NameOf(c.chain[Len(c.chain)])]
  <2>1. c.chain \in Seq(Templates) /\ c.ns \in OrNone(Templates)
    BY <1>1, <1>5, MemoChains DEF IInv, Composition
  <2>2. found # {}
    <3>1. PICK names : names = ChainOf(t)
      OBVIOUS
    <3>2. /\ names \in SUBSET Names /\ Page \in names
          /\ \A m \in names : Parent[m] \in names \cup {None}
          /\ \A m \in names : Parent[m] = None => m = NameOf(c.chain[Len(c.chain)])
      BY <1>1, <1>5, <3>1, ChainNames
    <3>3. n \in names \/ n = Import[Page]
      BY <1>5, <3>2, UnitAssumption
    <3>4. CASE n \in names
      <4>1. PICK i \in DOMAIN c.chain : NameOf(c.chain[i]) = n
        BY <3>1, <3>4 DEF ChainOf
      <4>2. c.chain[i] \in Templates /\ c.chain[i] # None
        <5>1. c.chain[i] \in Templates
          BY <2>1
        <5> QED BY <5>1, LoadAssumption DEF IInv, Typed, Templates
      <4> QED BY <4>1, <4>2
    <3>5. CASE n = Import[Page]
      <4>1. c.ns \in Templates /\ NameOf(c.ns) = n
        BY <1>1, <1>5, <3>5 DEF OneInv, OneNamespace, Bound
      <4>2. c.ns # None
        BY <4>1, LoadAssumption DEF IInv, Typed, Templates
      <4> QED BY <4>1, <4>2
    <3> QED BY <3>3, <3>4, <3>5
  <2>3. \A u \in found : u \in Templates /\ NameOf(u) = n
    BY <2>1 DEF OrNone
  <2>4. PICK f : f = CHOOSE u \in found : TRUE
    OBVIOUS
  <2>5. f \in found
    BY <2>2, <2>4
  <2>6. Walked(g, n) = parsed[made[f]].text
    BY <1>0, <1>5, <2>2, <2>4, ZenonT(60) DEF Walked
  <2> QED BY <1>2, <2>3, <2>5, <2>6, MembersMatch DEF NameOf
<1> QED BY <1>3, <1>4, <1>5

DispatchedWalks ==
  IInv /\ UnitInv /\ OneInv =>
    \A g \in Goroutines : Alone(g) /\ Dispatched(g) => \A n \in MemberSet : Walked(g, n) = UnitText[n]

LEMMA DispatchesWalk == DispatchedWalks
BY DispatchedWalk DEF DispatchedWalks

(* A render is dispatched when the last absent template was not found. *)
LEMMA DispatchProbed ==
  ASSUME IInv, OneInv, NEW g \in Goroutines, Alone(g), [Next]_vars, ~Dispatched(g), Dispatched(g)'
  PROVE  \A n \in AbsentSet : ~Exists(n)'
<1> USE DEF At, Dispatched
<1>1. job \in [Goroutines -> Jobs] /\ OneJob(job[g])
  BY DEF IInv, Typed, OneInv
<1>2. Render(g)
  <2>1. job' # job
    BY <1>1
  <2>2. \A h \in Goroutines : h = g
    BY DEF Alone
  <2> QED BY <2>1, <2>2 DEF Next, Edit, vars
<1>3. CASE Verdict(g)
  <2>1. Absent = <<>>
    BY <1>1, <1>3 DEF Verdict, Jobs
  <2> QED BY <2>1 DEF AbsentSet
<1>4. CASE ProbeAbsent(g)
  <2>1. job[g].todo = Absent /\ Absent # <<>>
    BY <1>1, <1>4 DEF ProbeAbsent, OneJob
  <2>2. Len(Absent) = 1 /\ Head(Absent) = Absent[1]
    <3>1. Absent \in Seq(Names) /\ Len(Absent) <= 1
      BY LoadAssumption DEF Alone
    <3>2. Len(Absent) # 0 /\ Len(Absent) \in Nat
      BY <2>1, <3>1, EmptySeq
    <3>3. Head(Absent) = Absent[1]
      BY <2>1, <3>1
    <3>4. Len(Absent) = 1
      <4>1. PICK l : l = Len(Absent)
        OBVIOUS
      <4>2. l \in Nat /\ l <= 1 /\ l # 0
        BY <3>1, <3>2, <4>1
      <4>3. l = 1
        BY <4>2
      <4> QED BY <4>1, <4>3
    <3> QED BY <3>3, <3>4
  <2>3. AbsentSet = {Head(Absent)}
    BY <2>2, LoadAssumption DEF AbsentSet
  <2>4. ~Exists(Head(Absent))
    BY <1>1, <1>4, <2>1 DEF ProbeAbsent, Jobs
  <2>5. cache' = cache /\ text' = text
    BY <1>4 DEF ProbeAbsent, loader, memos
  <2> QED BY <2>3, <2>4, <2>5 DEF Exists
<1>5. CASE ~Verdict(g) /\ ~ProbeAbsent(g)
  <2>1. job'[g].at # "compiled" \/ job'[g] = job[g]
    <3>1. CASE StartRender(g) \/ CacheHit(g) \/ CacheMiss(g) \/ LoaderGet(g) \/ CachePut(g)
      BY <1>1, <3>1 DEF StartRender, Idle, CacheHit, CacheMiss, LoaderGet, CachePut, Jobs
    <3>2. CASE LoadFails(g)
      BY <1>1, <3>2 DEF LoadFails, RenderFails, OptionFails, ImportFails, MemberFails, Ended, Idle, Jobs
    <3>3. CASE PreparedHit(g) \/ Prepare(g)
      <4>1. job[g].why \in Purposes /\ job[g].why # "member"
        BY <1>1, <3>3 DEF PreparedHit, Looks, Prepare, IInv, JobInv, LoadInv, Jobs
      <4>2. PICK t : job' = [job EXCEPT ![g] = Used(job[g], t)]
        BY <3>3 DEF PreparedHit, Prepare, Use
      <4>3. Used(job[g], t).at # "compiled"
        BY <1>1, <4>1 DEF Used, Idle, Purposes, Jobs
      <4> QED BY <1>1, <4>2, <4>3
    <3>4. CASE PreparedMiss(g) \/ Lock(g) \/ NextMember(g) \/ Witness(g) \/ ServeCompiled(g)
      BY <1>1, <3>4 DEF PreparedMiss, Lock, NextMember, Witness, ServeCompiled, Load, Ended, Idle, Jobs
    <3>5. CASE ComposeMemo(g) \/ ComposeFresh(g) \/ WalkParent(g) \/ LoadMacros(g)
      BY <1>1, <3>5 DEF ComposeMemo, ComposeFresh, WalkParent, LoadMacros, Load, Jobs
    <3>6. CASE Publish(g) \/ Body(g) \/ Option(g)
      BY <1>1, <3>6 DEF Publish, Body, Option, Load, Ended, Idle, Jobs
    <3> QED BY <1>2, <1>5, <3>1, <3>2, <3>3, <3>4, <3>5, <3>6 DEF Render
  <2> QED BY <2>1
<1> QED BY <1>3, <1>4, <1>5

(* compiledFor: with one renderer and a loader that serves every member, a   *)
(* compiled unit only ever serves the sources the interpreter would walk,    *)
(* and is only dispatched while its optional include is not there.           *)
THEOREM OneServesWalk ==
  ASSUME NEW g, Alone(g)
  PROVE  Spec => CompiledServesWalk
<1>0. \A h \in Goroutines : Alone(h)
  BY DEF Alone
<1>1. IInv /\ OneInv /\ IInv' /\ UnitInv' /\ OneInv' /\ [Next]_vars =>
        [Served]_vars
  <2> SUFFICES ASSUME IInv, OneInv, IInv', UnitInv', OneInv', [Next]_vars,
                      NEW h \in Goroutines, Dispatched(h)'
               PROVE  /\ \A n \in MemberSet : Walked(h, n)' = UnitText[n]
                      /\ ~Dispatched(h) => \A n \in AbsentSet : ~Exists(n)'
    BY DEF Served
  <2>1. DispatchedWalks'
    BY DispatchesWalk, PTL
  <2>2. \A n \in MemberSet : Walked(h, n)' = UnitText[n]
    BY <1>0, <2>1 DEF DispatchedWalks, Alone
  <2>3. ~Dispatched(h) => \A n \in AbsentSet : ~Exists(n)'
    BY <1>0, DispatchProbed
  <2> QED BY <2>2, <2>3
<1>2. Spec => []OneInv
  BY OneInvariant
<1> QED BY <1>1, <1>2, LoadInvariant, UnitInvariant, PTL DEF Spec, CompiledServesWalk
=============================================================================
