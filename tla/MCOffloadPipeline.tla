-------------------------- MODULE MCOffloadPipeline -------------------------
EXTENDS OffloadPipeline

MCTopKLists == {f \in [Positions -> Tokens] : f[0] <= f[1] /\ f[0] < 2}
MCRewritten == {<<1, 0>>, <<1, 2>>}
=============================================================================
