---------------------------- MODULE MCGroupSync ----------------------------
(* Three ranks gather three times; between the gathers two of them meet at a   *)
(* barrier of their own.                                                       *)
EXTENDS GroupSync

MCChannels == {"all", "pair"}

MCMembers == [ch \in MCChannels |-> IF ch = "pair" THEN {0, 1} ELSE Ranks]

MCIsGather == [ch \in MCChannels |-> ch = "all"]

MCProgram ==
    [r \in Ranks |-> IF r \in {0, 1} THEN <<"all", "pair", "all", "pair", "all">>
                                     ELSE <<"all", "all", "all">>]

=============================================================================
