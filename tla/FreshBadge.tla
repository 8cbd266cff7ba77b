----------------------------- MODULE FreshBadge -----------------------------
(***************************************************************************)
(* What the Git badges of an editor promise.  Every project has a working  *)
(* tree, known by the number of times it changed, and a badge.  A badge is *)
(* either nothing, a guess the user interface made, or the result of a     *)
(* read; a read shown after a request that would not accept older results  *)
(* began no earlier than that request.                                     *)
(***************************************************************************)
EXTENDS Naturals

CONSTANTS Projects, Badges,
          Certain(_),   \* the badge is the result of a read ...
          TreeOf(_)     \* ... of this tree

VARIABLES tree,   \* [Projects -> Nat]     changes of the working tree so far
          asked,  \* [Projects -> Nat]     the tree at the last request for news
          badge   \* [Projects -> Badges]  what is shown

badgeVars == <<tree, asked, badge>>

BadgeInit ==
  /\ tree = [p \in Projects |-> 0]
  /\ asked = [p \in Projects |-> 0]
  /\ badge \in [Projects -> Badges]
  /\ \A p \in Projects : ~Certain(badge[p])

\* A request only moves the mark to the tree of that moment.
Asks(p) == asked'[p] \in {asked[p], tree'[p]}

\* A badge changes to a guess, or to a tree no older than the mark.
Shows(p) ==
  \/ badge'[p] = badge[p]
  \/ ~Certain(badge'[p])
  \/ TreeOf(badge'[p]) \in asked[p] .. tree[p]

BadgeNext ==
  \A p \in Projects : tree'[p] >= tree[p] /\ Asks(p) /\ Shows(p)

BadgeSpec == BadgeInit /\ [][BadgeNext]_badgeVars
=============================================================================
