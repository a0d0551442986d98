---------------------------- MODULE Calculation ----------------------------
(***************************************************************************)
(* The engineering calculator (tools/calc.py): the names of its inputs,    *)
(* the check of a corrosion rate against what the documents record, and    *)
(* the arithmetic of each calculation.                                     *)
(*                                                                         *)
(* A source line is [place, names, years, numbers]: the place it is about, *)
(* the names that occur in it (that of CML-40 has CML-4 in it too), and    *)
(* its plausible numbers.  Quantities are integers, all thicknesses in one *)
(* unit, intervals and ratios in tenths.  Results are fractions.           *)
(*                                                                         *)
(* An input is <<name, size, form>>: it "fits", as a quantity of the       *)
(* dimension that is wanted or a bare number where none is, it has a unit  *)
(* of an "other" dimension, or it can be read as "none".                   *)
(***************************************************************************)
EXTENDS Integers, Sequences, SequencesExt, FiniteSetsExt

CONSTANTS
    Documents,      \* sets of lines a run may have retrieved
    Parameters,     \* PARAMETERS: calculation -> [required, known, aliases]
    Given,          \* the calls a model may make, [calculation, inputs], the
                    \* inputs as a sequence of <<name, size, form>>
    Tolerance       \* a reading is taken for a recorded one that is nearer (0.005 mm)

VARIABLES
    lines,          \* what the run has retrieved
    given,          \* the call, NoCall before it
    result          \* [status, value], status "none", "ok", "refused", "failed"

calcVars == <<lines, given, result>>

NoCall == [calculation |-> "none", inputs |-> <<>>]
NoValue == <<0, 0>>
Ok(value) == [status |-> "ok", value |-> value]
Refuse == [status |-> "refused", value |-> NoValue]
Failure == [status |-> "failed", value |-> NoValue]
Infinite == <<1, 0>>

CalcInit == lines = {} /\ given = NoCall /\ result = [status |-> "none", value |-> NoValue]

-----------------------------------------------------------------------------
(***************************************************************************)
(* normalise_inputs: the first value given for a name, under that name or  *)
(* another that is known for it.                                           *)
(***************************************************************************)

Canonical(calculation, name) ==
    LET spec == Parameters[calculation]
    IN  IF name \in spec.known THEN name
        ELSE IF name \in DOMAIN spec.aliases THEN spec.aliases[name] ELSE "ignored"

Cleaned(call) ==
    LET names == [i \in DOMAIN call.inputs |-> Canonical(call.calculation, call.inputs[i][1])]
    IN  [n \in ToSet(names) \ {"ignored"} |->
            call.inputs[Min({i \in DOMAIN names : names[i] = n})]]

Sizes(call) == [n \in DOMAIN Cleaned(call) |-> Cleaned(call)[n][2]]
Forms(call) == [n \in DOMAIN Cleaned(call) |-> Cleaned(call)[n][3]]

\* A source line names the place it is about, and its numbers are numbers.
ASSUME QuantitiesAreRead ==
    /\ Tolerance \in Nat \ {0}
    /\ \A call \in Given :
         /\ call.inputs \in Seq({call.inputs[i] : i \in DOMAIN call.inputs})
         /\ \A i \in DOMAIN call.inputs :
              Canonical(call.calculation, call.inputs[i][1]) \notin {"location", "ignored"}
                  => call.inputs[i][2] \in Int
    /\ \A retrieved \in Documents : \A l \in retrieved :
         l.place \in l.names /\ l.numbers \subseteq Int

\* The two calculations the properties are about, as PARAMETERS has them.
ASSUME ParametersAsListed ==
    /\ {"initial_thickness", "current_thickness", "interval", "location"}
         \subseteq Parameters["corrosion_rate"].required
    /\ {"design_pressure", "inside_radius", "allowable_stress"}
         \subseteq Parameters["minimum_thickness_shell"].required

-----------------------------------------------------------------------------
(***************************************************************************)
(* The corrosion rate, and what the documents say of it.                   *)
(***************************************************************************)

\* A fault: the place is not looked at.
RecordedAnywhere(year, place) ==
    UNION {l.numbers : l \in {l \in lines : year \in l.years}}

\* readings_recorded_for: the numbers of the lines that name the year and the place.
RecordedFor(year, place) ==
    UNION {l.numbers : l \in {l \in lines : year \in l.years /\ place \in l.names}}

Near(a, b) == a - b < Tolerance /\ b - a < Tolerance

\* contradicts_sources: something is recorded, and it is something else.  The year is
\* looked for as it was written, and with a unit it is in no line; the thickness is
\* converted to compare it, and a wrong unit is not caught there.
Against(q, form, thickness, year) ==
    IF year \notin DOMAIN q \/ form[year] # "fits" \/ RecordedFor(q[year], q["location"]) = {}
    THEN "passed"
    ELSE IF form[thickness] # "fits" THEN "failed"
    ELSE IF \E n \in RecordedFor(q[year], q["location"]) : Near(q[thickness], n) THEN "passed"
    ELSE "refused"

SourceCheck(q, form) ==
    IF Against(q, form, "initial_thickness", "initial_year") = "passed"
    THEN Against(q, form, "current_thickness", "current_year")
    ELSE Against(q, form, "initial_thickness", "initial_year")

Dated(q) == {"initial_year", "current_year"} \subseteq DOMAIN q

Span(q) == q["current_year"] - q["initial_year"]

\* In tenths of a year.
Interval(q) == IF Dated(q) THEN 10 * Span(q) ELSE q["interval"]

CorrosionRate(q) ==
    LET off == 10 * Span(q) - q["interval"]
    IN  IF Dated(q) /\ (Span(q) <= 0 \/ off > 5 \/ off < -5) THEN Refuse
        ELSE IF Interval(q) = 0 THEN Refuse
        ELSE Ok(<<10 * (q["initial_thickness"] - q["current_thickness"]), Interval(q)>>)

-----------------------------------------------------------------------------
(***************************************************************************)
(* The other calculations.                                                 *)
(***************************************************************************)

RemainingLife(q) ==
    IF q["corrosion_rate"] <= 0 THEN Ok(Infinite)
    ELSE Ok(<<q["current_thickness"] - q["minimum_thickness"], q["corrosion_rate"]>>)

Efficiency(q) == IF "joint_efficiency" \in DOMAIN q THEN q["joint_efficiency"] ELSE 10

\* P R / (S E - 0.6 P)
MinimumThickness(q) ==
    LET denominator == q["allowable_stress"] * Efficiency(q) - 6 * q["design_pressure"]
    IN  IF denominator <= 0 THEN Refuse
        ELSE Ok(<<10 * q["design_pressure"] * q["inside_radius"], denominator>>)

\* S E t / (R + 0.6 t), for a thickness that may be a fraction.
Mawp(q, t) ==
    LET denominator == 10 * q["inside_radius"] * t[2] + 6 * t[1]
    IN  IF denominator = 0 THEN Refuse
        ELSE Ok(<<q["allowable_stress"] * Efficiency(q) * t[1], denominator>>)

\* The mean of two differences lies between them; where, is left out.
Lmtd(q) ==
    IF q["delta_t1"] <= 0 \/ q["delta_t2"] <= 0 THEN Refuse
    ELSE IF q["delta_t1"] = q["delta_t2"] THEN Ok(<<q["delta_t1"], 1>>)
    ELSE Ok(<<q["delta_t1"] + q["delta_t2"], 2>>)

HeatDuty(q) == Ok(<<q["mass_flow"] * q["specific_heat"] * q["delta_t"], 1>>)

\* The root of a negative quotient is no real number.  Its size is left out.
OrificeFlow(q) ==
    IF q["beta"] <= 0 \/ q["beta"] >= 10 \/ q["density"] = 0 THEN Refuse
    ELSE IF q["differential_pressure"] * q["density"] < 0 THEN Failure
    ELSE Ok(<<q["differential_pressure"], q["density"]>>)

Handled(calculation, q) ==
    CASE calculation = "corrosion_rate" -> CorrosionRate(q)
      [] calculation = "remaining_life" -> RemainingLife(q)
      [] calculation = "minimum_thickness_shell" -> MinimumThickness(q)
      [] calculation = "mawp_shell" -> Mawp(q, <<q["thickness"], 1>>)
      [] calculation = "lmtd" -> Lmtd(q)
      [] calculation = "heat_duty" -> HeatDuty(q)
      [] calculation = "orifice_flow" -> OrificeFlow(q)

-----------------------------------------------------------------------------
Retrieved ==
    /\ given = NoCall /\ lines = {}
    /\ lines' \in Documents
    /\ UNCHANGED <<given, result>>

\* Whose magnitude is taken, whatever its unit.
Dimensionless == {"initial_year", "current_year", "joint_efficiency", "beta", "discharge_coefficient"}

\* run: every input is there and can be read; the sources do not contradict; the
\* units fit; and then the calculation itself.
Calculate(call) ==
    LET q == Sizes(call)
        form == Forms(call)
        missing == ~(Parameters[call.calculation].required \subseteq DOMAIN q)
        unreadable == \E n \in DOMAIN q : n # "location" /\ form[n] = "none"
        misfit == \E n \in DOMAIN q \ Dimensionless : n # "location" /\ form[n] # "fits"
        check == IF call.calculation = "corrosion_rate" THEN SourceCheck(q, form) ELSE "passed"
    IN  IF missing \/ unreadable THEN Refuse
        ELSE IF check = "failed" THEN Failure
        ELSE IF check = "refused" \/ misfit THEN Refuse
        ELSE Handled(call.calculation, q)

Called ==
    /\ given = NoCall
    /\ given' \in Given
    /\ result' = Calculate(given')
    /\ UNCHANGED lines

CalcNext == Retrieved \/ Called

CalcSpec == CalcInit /\ [][CalcNext]_calcVars

-----------------------------------------------------------------------------
(***************************************************************************)
(* Properties.                                                             *)
(***************************************************************************)

\* What the lines about a place say of a year.
Read(year, place) == UNION {l.numbers : l \in {l \in lines : l.place = place /\ year \in l.years}}

\* No other place has this one's name in its own.
OwnName(place) == \A l \in lines : place \in l.names => l.place = place

\* What a reading may be and still pass for this one.
Around(n) == (n - Tolerance + 1)..(n + Tolerance - 1)

\* A rate comes only of readings that the documents have at that place for the year
\* given, where they have any, to within the tolerance; and where they have exactly one
\* for each of the two years, it is the loss between those two over the years between,
\* whatever interval the model gave and under whatever names.
\* Exceptions: a place whose name is part of another's; and a year that was given with a
\* unit, for which no reading is looked up while its number is still used, so that a rate
\* of readings from another year is reported (contradicts_sources, _corrosion_rate).
RateIsOfTheReadings ==
    given.calculation = "corrosion_rate" /\ result.status = "ok" =>
        LET q == Sizes(given)
            Bare(year) == year \in DOMAIN q /\ Forms(given)[year] = "fits"
            AsRecorded(thickness, year) ==
                Bare(year) /\ Read(q[year], q["location"]) # {}
                    => \E n \in Read(q[year], q["location"]) : Near(q[thickness], n)
        IN  OwnName(q["location"]) =>
              /\ AsRecorded("initial_thickness", "initial_year")
              /\ AsRecorded("current_thickness", "current_year")
              /\ \A r, s \in UNION {l.numbers : l \in lines} :
                   /\ Bare("initial_year") /\ Bare("current_year")
                   /\ Read(q["initial_year"], q["location"]) = {r}
                   /\ Read(q["current_year"], q["location"]) = {s}
                   => /\ Span(q) > 0
                      /\ \E i \in Around(r), c \in Around(s) :
                           result.value[1] * Span(q) = (i - c) * result.value[2]

\* The two shell formulas are each other's inverse: a shell of the minimum thickness
\* for a pressure may be worked at that pressure.  Exception: a radius, a stress or
\* an efficiency of zero, which gives a thickness and is not refused
\* (_minimum_thickness_shell, _mawp_shell).
ShellFormulasAgree ==
    given.calculation = "minimum_thickness_shell" /\ result.status = "ok" =>
        LET q == Sizes(given)
            p == Mawp(q, result.value)
        IN  q["inside_radius"] * (q["allowable_stress"] * Efficiency(q)) # 0 =>
              p.status = "ok" /\ p.value[1] = q["design_pressure"] * p.value[2]

\* Both: what the calculator returns can be traced to what it was given.
CalculationsHold == RateIsOfTheReadings /\ ShellFormulasAgree
=============================================================================
