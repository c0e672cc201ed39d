--------------------------------- MODULE MCCache ---------------------------------
EXTENDS Cache, TLC

Nothing == <<0, 0, 0, 0, 0>>

\* Small numbers, which may be taken for the size of a group, and a kelvin and
\* a power that are not small.
Lit == <<1, 0, 2, 9, 9>>
NothingOrLit == {Nothing, Lit}

Table(f) == [l \in {f[m] : m \in DOMAIN f} |-> [m \in {k \in DOMAIN f : f[k] = l} |-> Lit]]

\* Two devices in one group or two, or in the group without a name.
SomeTables == {Table(<<1, 1>>), Table(<<1, 2>>), Table(<<0, 1>>)}
Symmetry == Permutations(Handlers)
==============================================================================
