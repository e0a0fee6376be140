----------------------------- MODULE MCDevices ------------------------------
(***************************************************************************)
(* Two sensors: the calibration of the driver's unit test, and one with a  *)
(* coefficient of each kind other than zero, dig_t3 and dig_h6 negative.   *)
(* Measurements: the one of the unit test, and either end of the range of  *)
(* temperatures with the driest and the wettest reading.                   *)
(***************************************************************************)
EXTENDS Devices

Block(temperature, h1, humidity) ==
    [temperature |-> temperature \o [k \in 1..20 |-> IF k = 20 THEN h1 ELSE 0],
     humidity |-> humidity]

MCSensors ==
    {Block(<<48, 111, 247, 104, 50, 0>>, 75, <<107, 1, 0, 18, 3, 30, 0>>),
     Block(<<112, 107, 67, 103, 24, 252>>, 75, <<98, 1, 1, 21, 36, 3, 226>>)}

MCMeasurements ==
    {<<0, 128, 0, 130, 63, 128, 127, 69>>}
    \cup {<<0, 128, 0>> \o t \o h : t \in {<<81, 0, 0>>, <<173, 0, 0>>},
                                    h \in {<<0, 0>>, <<255, 255>>}}
=============================================================================
