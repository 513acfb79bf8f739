-------------------------- MODULE MCTypedMptState --------------------------
EXTENDS TypedMptState

CONSTANTS acc1, acc2, s1, addr1, addr2

\* Three value keys, two of them under the hash path <<0>>.
MCValueKeys == {<<0, 0>>, <<0, 1>>, <<1, 0>>}
MCHashKeys == {<<0>>}
\* keccak of each address: one under the hash path, one outside it.
MCKeccak == [a \in {addr1, addr2} |-> IF a = addr1 THEN <<0, 1>> ELSE <<1, 0>>]
=============================================================================
