---------------------------- MODULE RenderCaches ----------------------------
(***************************************************************************)
(* The store behind @cache regions (pkg/cache RenderCache): keys to bodies *)
(* and tags to the keys that carried them.  Every method holds the mutex   *)
(* for its whole length, so each is one step.                              *)
(***************************************************************************)
EXTENDS Integers

CONSTANTS
  CacheKeys,    \* full keys, with the namespace
  Tags          \* invalidation tags

VARIABLES
  entries,      \* entries[k]: the body stored under k; keys without one are absent
  byTag,        \* byTag[t]: the keys that carried t
  puts,         \* bodies stored so far; a body is named by its number
  doomed        \* history: bodies stored carrying a tag that was invalidated since

cacheVars == <<entries, byTag, puts, doomed>>

CacheInit ==
  /\ entries = <<>>
  /\ byTag = [t \in Tags |-> {}]
  /\ puts = 0
  /\ doomed = {}

Found(key) == key \in DOMAIN entries

Without(f, keys) == [k \in DOMAIN f \ keys |-> f[k]]

(* Mutant: a key that is there is not listed again. *)
Listed_Once(key, tags) ==
  [t \in Tags |-> IF t \in tags /\ ~Found(key) THEN byTag[t] \cup {key} ELSE byTag[t]]

\* The tag lists once `key` is stored with `tags`; lists under other tags stay.
Listed(key, tags) == [t \in Tags |-> IF t \in tags THEN byTag[t] \cup {key} ELSE byTag[t]]

Put(key, tags) ==
  /\ puts' = puts + 1
  /\ entries' = [k \in DOMAIN entries \cup {key} |->
                   IF k = key THEN [body |-> puts + 1, tags |-> tags] ELSE entries[k]]
  /\ byTag' = Listed(key, tags)
  /\ UNCHANGED doomed

InvalidateTag(tag) ==
  /\ entries' = Without(entries, byTag[tag])
  /\ byTag' = [byTag EXCEPT ![tag] = {}]
  /\ doomed' = doomed \cup {entries[k].body : k \in {x \in DOMAIN entries : tag \in entries[x].tags}}
  /\ UNCHANGED puts

Clear ==
  /\ entries' = <<>>
  /\ byTag' = [t \in Tags |-> {}]
  /\ UNCHANGED <<puts, doomed>>

\* "InvalidateTag drops every cached entry that was stored carrying tag": no body
\* stays in the store once one of its tags was invalidated, however stores of the
\* same key with other tags came before it.
InvalidatedIsGone == \A k \in DOMAIN entries : entries[k].body \notin doomed
=============================================================================
