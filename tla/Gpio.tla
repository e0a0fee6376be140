-------------------------------- MODULE Gpio --------------------------------
(***************************************************************************)
(* GPIO lines through libgpiod (io/libgpiod_gpio.cpp).  A line is known by *)
(* its offset alone, whatever chip it is on.  Other processes take and     *)
(* give back lines too; each call into the library may fail.               *)
(***************************************************************************)
EXTENDS Integers, FiniteSets

CONSTANTS Chip,             \* chip names, the empty one included
          Offset            \* line offsets

VARIABLES lines_,           \* the handle of each offset: [chip, direction]
          chips,            \* descriptors of chips that are open, as [chip, offset]
          asked,            \* the request_line() under way, and how far it is
          reply             \* what the last call returned

gpioVars == <<lines_, chips, asked, reply>>

NoLine == [chip |-> "", direction |-> "none"]
NoCall == [stage |-> "none"]

Held      == {o \in Offset : lines_[o] # NoLine}
HeldChips == {[chip |-> lines_[o].chip, offset |-> o] : o \in Held}
AskedChip == IF asked = NoCall THEN {}
             ELSE {[chip |-> asked.chip, offset |-> asked.offset]}

GpioInit ==
    /\ lines_ = [o \in Offset |-> NoLine]
    /\ chips = {}
    /\ asked = NoCall
    /\ reply = FALSE

(***************************************************************************)
(* request_line(), one step per call into the library.  It needs a name,   *)
(* and a line that is held is granted again, unseen.                       *)
(***************************************************************************)
RequestUnnamed(chip) ==
    /\ chip = ""
    /\ reply' = FALSE
    /\ UNCHANGED <<lines_, chips, asked>>

RequestHeld(chip, o) ==
    /\ chip # "" /\ o \in Held
    /\ reply' = TRUE
    /\ UNCHANGED <<lines_, chips, asked>>

ChipOpens(chip, o, direction) ==
    /\ chip # "" /\ o \notin Held
    /\ chips' = chips \cup {[chip |-> chip, offset |-> o]}
    /\ asked' = [stage |-> "opened", chip |-> chip, offset |-> o, direction |-> direction]
    /\ UNCHANGED <<lines_, reply>>

ChipRefused(chip, o) ==
    /\ chip # "" /\ o \notin Held
    /\ reply' = FALSE
    /\ UNCHANGED <<lines_, chips, asked>>

LineFound ==
    /\ asked.stage = "opened"
    /\ asked' = [asked EXCEPT !.stage = "found"]
    /\ UNCHANGED <<lines_, chips, reply>>

(***************************************************************************)
(* The chip has no such line; or it has, but another process holds it.     *)
(* Either way the chip is closed again.                                    *)
(***************************************************************************)
LineMissing ==
    /\ asked.stage = "opened"
    /\ chips' = chips \ AskedChip
    /\ asked' = NoCall /\ reply' = FALSE
    /\ UNCHANGED lines_

\* Mutant: the chip stays open when its line is taken.
LineTakenLeavesChip ==
    /\ asked.stage = "found"
    /\ asked' = NoCall /\ reply' = FALSE
    /\ UNCHANGED <<lines_, chips>>

LineTaken ==
    /\ asked.stage = "found"
    /\ chips' = chips \ AskedChip
    /\ asked' = NoCall /\ reply' = FALSE
    /\ UNCHANGED lines_

LineGranted ==
    /\ asked.stage = "found"
    /\ lines_' = [lines_ EXCEPT ![asked.offset] =
                     [chip |-> asked.chip, direction |-> asked.direction]]
    /\ asked' = NoCall /\ reply' = TRUE
    /\ UNCHANGED chips

(***************************************************************************)
(* What the lines carry is outside the program; an input cannot be driven. *)
(***************************************************************************)
read_line(o) ==
    /\ reply' \in IF o \in Held THEN BOOLEAN ELSE {FALSE}
    /\ UNCHANGED <<lines_, chips, asked>>

write_line(o) ==
    /\ reply' \in IF lines_[o].direction = "output" THEN BOOLEAN ELSE {FALSE}
    /\ UNCHANGED <<lines_, chips, asked>>

(***************************************************************************)
(* The destructor releases every line and closes its chip; a controller    *)
(* made anew holds nothing.                                                *)
(***************************************************************************)
Destroyed ==
    /\ lines_' = [o \in Offset |-> NoLine]
    /\ chips' = chips \ HeldChips
    /\ reply' = FALSE
    /\ UNCHANGED asked
=============================================================================
