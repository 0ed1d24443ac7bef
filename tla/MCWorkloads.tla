---------------------------- MODULE MCWorkloads ----------------------------
EXTENDS Workloads

Case(name, args) == [name |-> name, args |-> args]
MCRuns ==
    {Case("usecase_02", <<1>>),
     Case("usecase_05", <<2, 16, 2, 5>>), Case("usecase_05", <<9, 7, 3, 1>>),
     Case("usecase_05", <<0, 1, 4, 0>>), Case("usecase_05", <<1, 0, 1, 1>>),
     Case("usecase_06", <<0, 2, 5>>), Case("usecase_06", <<4, 1, 1>>),
     Case("usecase_07", <<3, 3, 1>>), Case("usecase_07", <<5, 2, 0>>),
     Case("usecase_09", <<5, 2, 3>>),
     Case("usecase_10", <<2, 2, 9>>), Case("usecase_10", <<9, 3, 1>>)}
=============================================================================
