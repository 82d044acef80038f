---------------------------- MODULE MCSharedList ----------------------------
EXTENDS SharedList

\* An order, and a relation by which everything comes before everything else.
SomeOrders ==
    <<{<<1, 1>>, <<2, 2>>, <<3, 3>>, <<1, 2>>, <<2, 3>>, <<1, 3>>},
      {<<1, 1>>, <<2, 2>>, <<3, 3>>, <<1, 2>>, <<2, 3>>, <<3, 1>>}>>
SomeLists == {<<1>>, <<2, 1>>}
Perm == Permutations(Threads)

=============================================================================
