---------------------------- MODULE MCRowCoding ----------------------------
(***************************************************************************)
(* ScanCodec and PrimaryKey on bounded inputs, in one run: either a table  *)
(* is coded and decoded, or a key is looked up, while the inputs of the    *)
(* other module stay at the simplest ones.                                 *)
(***************************************************************************)
EXTENDS ScanCodec, PrimaryKey

NoTable == table = <<>> /\ op = "none" /\ result = Failed("none")
OneNumber == /\ parts = <<Number>> /\ found = "none"
             /\ row = <<Blanks(NumberSize)>> /\ sought = <<Blanks(NumberSize)>>

\* Bytes of 0 before, in and behind a text, lengths that are the same in their lower
\* byte (3 and 11), with and without a byte of 0.
MCText ==
    {<<>>, <<0>>, <<1>>, <<0, 0>>, <<1, 0>>, <<0, 1>>, <<2, 1>>, <<1, 2, 3>>,
     <<1, 2, 3>> \o Blanks(8), <<2, 3>> \o Blanks(9)}

RowsInit == (Init /\ OneNumber) \/ (KeyInit /\ NoTable)
RowsNext == (Next /\ UNCHANGED keyVars) \/ (index_read /\ UNCHANGED vars)
RowsSpec == RowsInit /\ [][RowsNext]_<<vars, keyVars>>
=============================================================================
