--------------------------- MODULE MCQuantizedMoe ---------------------------
EXTENDS QuantizedMoeProps

MCSize == [gate |-> 1, up |-> 1, down |-> 1]
\* The up tensor of the predictor's layer stands before its gate, the layers mixed.
MCFileOrder == <<(<<0, "down">>), <<1, "up">>, <<0, "gate">>, <<0, "up">>,
                 <<1, "gate">>, <<1, "down">> >>
MCCensus == <<(<<0, 1>>), <<0, 0>> >>
MCChoices == {<<1, 0>>, <<2, 1>>}
MCCapacities == {0, 5, 18}
=============================================================================
