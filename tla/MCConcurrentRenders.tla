------------------------ MODULE MCConcurrentRenders -------------------------
(* A page that overrides the block of its layout, a partial with a macro and *)
(* a block that the page uses as a trait, and a card that the layout embeds. *)
EXTENDS ConcurrentRenders, TLC

CONSTANTS w1, w2

TwoWorkers == {w1, w2}
AllCollectors == TwoWorkers \cup {"shared"}
MCTemplates == {"page", "layout", "lib", "card"}
MCChain == <<"page", "layout">>

Program == [
  override  |-> [kind |-> "block",    body |-> "page"],
  choice    |-> [kind |-> "ternary",  body |-> "override"],
  site      |-> [kind |-> "block",    body |-> "layout"],
  region    |-> [kind |-> "cache",    body |-> "layout"],
  cached    |-> [kind |-> "text",     body |-> "region"],
  partial   |-> [kind |-> "include",  body |-> "layout"],
  embed     |-> [kind |-> "embed",    body |-> "layout"],
  filling   |-> [kind |-> "block",    body |-> "embed"],
  hole      |-> [kind |-> "block",    body |-> "card"],
  markup    |-> [kind |-> "for",      body |-> "lib"],
  macro     |-> [kind |-> "macro",    body |-> "lib"],
  defaults  |-> [kind |-> "defaults", body |-> "macro"],
  fallback  |-> [kind |-> "coalesce", body |-> "defaults"],
  test      |-> [kind |-> "clause",   body |-> "macro"],
  trait     |-> [kind |-> "block",    body |-> "lib"]]

MCNodes == DOMAIN Program
MCKind == [n \in MCNodes |-> Program[n].kind]
MCBody == [n \in MCNodes |-> Program[n].body]
MCTraitBlocks == {"trait"}
WorkerSymmetry == Permutations(TwoWorkers)
=============================================================================
