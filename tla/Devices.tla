------------------------------ MODULE Devices -------------------------------
(***************************************************************************)
(* The device layer of one process: BME280 drivers and GPIO lines, called  *)
(* one at a time on the service thread and drawing on one table of file    *)
(* descriptors.                                                            *)
(***************************************************************************)
EXTENDS Bme280, Gpio

CONSTANT MaxDescriptors     \* RLIMIT_NOFILE, less what the rest of the process uses

ASSUME DescriptorAssumption == MaxDescriptors \in Nat

vars == <<busVars, gpioVars>>

Descriptors == Cardinality({d \in Driver : fd_[d]}) + Cardinality(chips)

Room == Descriptors < MaxDescriptors

Init == BusInit /\ GpioInit

BusStep ==
    \/ /\ asked = NoCall
       /\ \E d \in Driver : Configure(d) \/ ReadUnconfigured(d) \/ Read(d)
    \/ Room /\ Opens
    \/ OpenFails \/ ChipIdRefused \/ ChipIdMatches
    \/ LoadTemperature \/ LoadHumidity \/ CalibrationFails
    \/ HumidityControl \/ MeasureControl \/ ReadFails \/ read_raw
    \/ Measured
    \/ asked = NoCall /\ Reload

GpioCall ==
    /\ pc = "idle" /\ asked = NoCall
    /\ \/ \E chip \in Chip, o \in Offset, direction \in {"input", "output"} :
             \/ RequestUnnamed(chip) \/ RequestHeld(chip, o) \/ ChipRefused(chip, o)
             \/ Room /\ ChipOpens(chip, o, direction)
       \/ \E o \in Offset : read_line(o) \/ write_line(o)
       \/ Destroyed

GpioStep == GpioCall \/ LineFound \/ LineMissing \/ LineTaken \/ LineGranted

Next ==
    \/ BusStep /\ UNCHANGED gpioVars
    \/ GpioStep /\ UNCHANGED busVars

Spec == Init /\ [][Next]_vars
-----------------------------------------------------------------------------
(***************************************************************************)
(* The steps of a call happen on a bus its driver has open, with what a    *)
(* driver, a line and the sensor can hold.                                 *)
(***************************************************************************)
TypeOK ==
    /\ BusTypeOK
    /\ \A o \in Offset : lines_[o] = NoLine \/ lines_[o].chip \in Chip
    /\ chips \subseteq [chip : Chip, offset : Offset]
    /\ asked.stage \in {"none", "opened", "found"}
    /\ asked # NoCall => pc = "idle"
    /\ reply \in BOOLEAN

(***************************************************************************)
(* No descriptor leaks: whatever calls fail and however the service is     *)
(* reloaded, a bus is open only for a driver that is configured or is      *)
(* being configured, and a chip only for a line that is held or is being   *)
(* asked for.                                                              *)
(***************************************************************************)
NoDescriptorLeak ==
    /\ \A d \in Driver : fd_[d] => configured_[d] \/ (pc # "idle" /\ self = d)
    /\ chips = HeldChips \cup AskedChip
=============================================================================
