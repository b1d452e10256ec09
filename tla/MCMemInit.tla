------------------------------ MODULE MCMemInit ------------------------------
(***************************************************************************)
(* Instances of MemInit for TLC: pages of two words, all of which a table  *)
(* uses, in memories of five or six pages.                                 *)
(***************************************************************************)
EXTENDS MemInit

T(a, first, second) == [addr |-> a, page |-> <<first, second>>]
D(v, page) == [vaddr |-> InitVirtAddr64(v), page |-> page]

\* The PTE table: frames 4 and 5 / itself and frame 5 / one frame twice / outside.
MCTables == {<<T(8, 16, 16), T(16, 24, 24), pte>> :
               pte \in {T(24, 32, 40), T(24, 24, 40), T(24, 32, 32), T(24, 32, 200)}}
            \cup {<<>>, <<T(48, 0, 0)>>, <<T(8, 16, 100), T(16, 24, 24), T(24, 32, 40)>>}

\* Pages at both addresses, one at a second word, one that goes beyond its page,
\* one that would be a table.
MCPages == {D(0, <<101, 102>>), D(8, <<103, 104>>), D(4, <<105>>), D(12, <<106, 107>>),
            D(0, <<40, 32>>), D(16, <<108, 109>>)}

MCDescriptions ==
  {[size |-> 4, pgd |-> <<8, 8>>, tables |-> <<>>, data |-> <<>>]} \cup
  [size : {40, 48}, pgd : {<<8, 8>>, <<8, 8, 7>>, <<>>}, tables : MCTables,
   data : {<<>>} \cup {<<p>> : p \in MCPages} \cup {<<p, q>> : p, q \in MCPages}]

MCDumps == {<<>>, <<8, 8, 16, 16, 24, 24, 32, 40, 101, 102, 103, 104>>}
MCVaddrs == {InitVirtAddr64(n) : n \in {0, 5, 12}}
=============================================================================
