----------------------------- MODULE BmsBalance -----------------------------
(***************************************************************************)
(* The passive balancing of l1_m4/Core/bms/bms_balance.c.  A step is a     *)
(* call of BAL_Task that runs, one per second; measurements are arbitrary. *)
(***************************************************************************)
EXTENDS Integers, FiniteSets

CONSTANTS
  Cell,                   \* 0..BMS_CELL_COUNT - 1
  Milli,                  \* cell voltages, above some base
  BALANCE_THRESHOLD_mV, BALANCE_HYSTERESIS_mV,
  max_balance_cells,
  DutyMod,                \* 2^8: values of duty_counter
  BALANCE_MAX_DUTY_CYCLES

BalanceAssumption ==
  /\ IsFiniteSet(Cell) /\ Cell \subseteq Nat /\ Milli \subseteq Nat
  /\ {BALANCE_THRESHOLD_mV, BALANCE_HYSTERESIS_mV, max_balance_cells, DutyMod,
      BALANCE_MAX_DUTY_CYCLES} \subseteq Nat \ {0}
  /\ BALANCE_HYSTERESIS_mV < BALANCE_THRESHOLD_mV
  /\ 1 < DutyMod /\ DutyMod <= BALANCE_MAX_DUTY_CYCLES    \* 256 and 600

VARIABLES
  cell_mV, balancing_active, duty_counter, paused_thermal,   \* bal_
  ran                     \* history: did the last call reach the selection?

vars == <<cell_mV, balancing_active, duty_counter, paused_thermal, ran>>

(* BAL_Init.                                                               *)
Init == /\ cell_mV = [c \in Cell |-> 0] /\ balancing_active = {}
        /\ duty_counter = [c \in Cell |-> 0] /\ paused_thermal = FALSE /\ ran = FALSE

Low(v) == CHOOSE m \in Milli : (\E c \in Cell : v[c] = m) /\ \A c \in Cell : m <= v[c]
Delta(v, c) == v[c] - Low(v)

(* Too hot, or cooling down; or not near the end of a charge.              *)
AllOff == /\ balancing_active' = {} /\ duty_counter' = [c \in Cell |-> 0] /\ ran' = FALSE

(* The first pause switches everything off, later calls return at once.    *)
Pause == /\ paused_thermal' = TRUE
         /\ IF paused_thermal THEN UNCHANGED <<balancing_active, duty_counter, ran>>
            ELSE AllOff

NotCharging == paused_thermal' = FALSE /\ AllOff

Wanting(v) == {c \in Cell : /\ Delta(v, c) >= BALANCE_THRESHOLD_mV
                            /\ duty_counter[c] < BALANCE_MAX_DUTY_CYCLES}

(* The mask: all that want it, or the highest of all cells when these are  *)
(* too many, without another look at their duty.  Equal cells are ordered  *)
(* by the exchanges of the sort: any choice among them is allowed here.    *)
Masks(v) ==
  IF Cardinality(Wanting(v)) <= max_balance_cells THEN {Wanting(v)}
  ELSE {{c \in top : Delta(v, c) >= BALANCE_THRESHOLD_mV} :
          top \in {s \in SUBSET Cell : /\ Cardinality(s) = max_balance_cells
                                       /\ \A c \in s, d \in Cell \ s : v[c] >= v[d]}}

(* Mutant: a cell that is bled stays so until it is the lowest.            *)
Stops_m(v, c) == Delta(v, c) = 0

(* A cell that left the mask goes on until the hysteresis ends it.         *)
Stops(v, c) == Delta(v, c) < BALANCE_THRESHOLD_mV - BALANCE_HYSTERESIS_mV

(* duty_counter is a uint8_t: it wraps before the limit of 600.            *)
Select ==
  \E mask \in Masks(cell_mV') :
    LET off == {c \in balancing_active \ mask : Stops(cell_mV', c)}
        on == (balancing_active \cup mask) \ off
    IN  /\ paused_thermal' = FALSE /\ ran' = TRUE /\ balancing_active' = on
        /\ duty_counter' = [c \in Cell |->
             IF c \in on \ balancing_active THEN 1
             ELSE IF c \in on THEN (duty_counter[c] + 1) % DutyMod
             ELSE IF c \in off THEN 0 ELSE duty_counter[c]]

(* The voltages are read first, whatever follows.                          *)
BAL_Task == /\ cell_mV' \in [Cell -> Milli]
            /\ Pause \/ NotCharging \/ Select

Next == BAL_Task
Spec == Init /\ [][Next]_vars
-----------------------------------------------------------------------------
TypeOK == /\ cell_mV \in [Cell -> Milli \cup {0}] /\ balancing_active \subseteq Cell
          /\ duty_counter \in [Cell -> 0..DutyMod - 1]
          /\ {paused_thermal, ran} \subseteq BOOLEAN

(* A cell is only bled while it is above the lowest one by the threshold   *)
(* less the hysteresis, so that no call bleeds the lowest cell or leaves   *)
(* one on after the selection has changed, and never while it is paused.   *)
BleedsHighCells ==
  /\ paused_thermal => balancing_active = {}
  /\ ran /\ ~paused_thermal => \A c \in balancing_active :
       Delta(cell_mV, c) >= BALANCE_THRESHOLD_mV - BALANCE_HYSTERESIS_mV

(* Every cell that is high enough is bled, or as many as the resistors     *)
(* may carry are, as long as the 8 bits of its duty do not reach the limit *)
(* (so it can never rest: bms_balance.c:34 means to stop it at 10 min).    *)
HighCellsAreBled ==
  ran /\ ~paused_thermal =>
    \/ \A c \in Cell : Delta(cell_mV, c) >= BALANCE_THRESHOLD_mV => c \in balancing_active
    \/ Cardinality(balancing_active) >= max_balance_cells
=============================================================================
