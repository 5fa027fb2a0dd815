------------------------------ MODULE DigitTrie ------------------------------
(***************************************************************************)
(* The radix trie from digit paths to data of dlc-trie/src/digit_trie.rs.  *)
(* The arena of the code becomes a tree: a node holds its prefix (the      *)
(* digits below its parent, the one that selects it included), its data,   *)
(* as a sequence of at most one element, and one child per digit. A leaf   *)
(* is a node without children.                                             *)
(***************************************************************************)
EXTENDS Digits

NoTrie == [prefix |-> <<>>, data |-> <<>>, children |-> <<>>]

NoChildren(base) == [d \in 0 .. (base - 1) |-> NoTrie]

insert_new_leaf(path, d, base) ==
    [prefix |-> path, data |-> <<d>>, children |-> NoChildren(base)]

\* insert_internal: the trie with d at path. A caller that updates reads the
\* old value with DataAt; the code passes it to the closure get_data.
RECURSIVE insert_internal(_, _, _, _)
insert_internal(t, path, d, base) ==
    LET shared == SharedLen(t.prefix, path)
        suffix == Drop(path, shared)
        pushed == [t EXCEPT !.prefix = Drop(@, shared)]
        below  == [NoChildren(base) EXCEPT ![pushed.prefix[1]] = pushed]
    IN  CASE t = NoTrie -> insert_new_leaf(path, d, base)
          [] t # NoTrie /\ t.prefix = path -> [t EXCEPT !.data = <<d>>]
          [] t # NoTrie /\ t.prefix # path /\ shared = Len(t.prefix) ->
               [t EXCEPT !.children[suffix[1]] = insert_internal(@, suffix, d, base)]
          [] t # NoTrie /\ shared < Len(t.prefix) ->
               [prefix   |-> SubSeq(path, 1, shared),
                data     |-> IF suffix = <<>> THEN <<d>> ELSE <<>>,
                children |-> IF suffix = <<>> THEN below
                             ELSE [below EXCEPT ![suffix[1]] =
                                       insert_new_leaf(suffix, d, base)]]

\* look_up: the entries on the way down path, shortest first; <<>> is None.
RECURSIVE look_up_internal(_, _)
look_up_internal(t, path) ==
    IF t = NoTrie \/ ~IsPrefix(t.prefix, path) THEN <<>>
    ELSE LET n    == Len(t.prefix)
             here == [i \in 1 .. Len(t.data) |-> [path |-> t.prefix, value |-> t.data[i]]]
             down == IF n = Len(path) THEN <<>>
                     ELSE look_up_internal(t.children[path[n + 1]], Drop(path, n))
         IN  here \o [i \in 1 .. Len(down) |-> [down[i] EXCEPT !.path = t.prefix \o @]]

\* Mutant: an insertion does not see what is there.
DataForgotten(t, path) == <<>>

\* What an insertion at path finds there: <<>> or the value.
DataAt(t, path) ==
    LET found == look_up_internal(t, path)
    IN  IF found # <<>> /\ Last(found).path = path THEN <<Last(found).value>> ELSE <<>>

\* DigitTrieIter: every entry with its path. The order is never used: the
\* callers sort by adaptor index.
RECURSIVE Entries(_)
Entries(t) ==
    IF t = NoTrie THEN {}
    ELSE {[path |-> t.prefix, value |-> t.data[i]] : i \in 1 .. Len(t.data)}
         \cup UNION {{[e EXCEPT !.path = t.prefix \o @] : e \in Entries(t.children[c])} :
                     c \in DOMAIN t.children}

=============================================================================
