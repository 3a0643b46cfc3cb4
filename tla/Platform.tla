------------------------------ MODULE Platform ------------------------------
(***************************************************************************)
(* Identification of the unit's model among the known ones, and what the    *)
(* other parts learn of it (pkg/appliance).                                 *)
(*                                                                          *)
(* A variant names a manufacturer and a product, the skus its expression    *)
(* matches, the field that holds the sku, its processors and a code name.   *)
(* What the firmware says of a unit (pkg/hw/dmi) is a record.               *)
(***************************************************************************)
EXTENDS Integers, Sequences, SequencesExt, FiniteSets, FiniteSetsExt

\* Each processor of the variant takes away one of the unit's; a match when
\* none of those is left.
TakeCpu(cpus, cpu) ==
  LET at == {i \in 1 .. Len(cpus) : cpus[i] = cpu} IN IF at = {} THEN cpus ELSE RemoveAt(cpus, Min(at))

\* The bug of a match that asks for the first processor only.
FirstProcessorMatch(variant, cpus) ==
  variant.cpus = << >> \/ (cpus # << >> /\ cpus[1] = variant.cpus[1])

ProcessorMatch(variant, cpus) ==
  variant.cpus = << >> \/ FoldLeft(TakeCpu, cpus, variant.cpus) = << >>

\* The sku in the field the variant names.
Sku(variant, unit) == unit.skus[variant.skuField]
CheckModelRe(variant, unit) == Sku(variant, unit) \in variant.matches

Fits(variant, mfg, prod, unit) ==
  /\ variant.mfg = mfg /\ variant.prod = prod
  /\ CheckModelRe(variant, unit)
  /\ ProcessorMatch(variant, unit.cpus)

\* The first that fits the baseboard, or else the system; 0 if none does.
FirstFit(variants, mfg, prod, unit) ==
  LET fit == {i \in 1 .. Len(variants) : Fits(variants[i], mfg, prod, unit)}
  IN IF fit = {} THEN 0 ELSE Min(fit)
Identify(variants, unit) ==
  LET board == FirstFit(variants, unit.boardMfg, unit.boardProd, unit)
  IN IF board # 0 THEN board ELSE FirstFit(variants, unit.sysMfg, unit.sysProd, unit)

\* Failing that, by the code name on the recovery volume; "unreadable" when
\* there is no such volume or nothing in its file.
FallbackFile(variants, code) ==
  LET named == {i \in 1 .. Len(variants) : variants[i].code = code} IN IF named = {} THEN 0 ELSE Min(named)
IdentifyWithFallback(variants, unit, code) ==
  LET found == Identify(variants, unit)
  IN IF found # 0 THEN [idx |-> found, fallback |-> FALSE]
     ELSE IF code = "unreadable" THEN [idx |-> 0, fallback |-> FALSE]
     ELSE [idx |-> FallbackFile(variants, code), fallback |-> TRUE]

\* Numbers and names of the data that stand for something else when they
\* are missing or unknown.
DiskSetTol(given) == IF given = 0 THEN 1 ELSE given
DiskTgtTol(given) == IF given = 0 THEN 5 ELSE given
ReadLcd(name) == IF name \in {"631", "635"} THEN name ELSE "none"
ReadValidation(name) ==
  IF name = "" THEN "none" ELSE IF name \in {"usb", "sata", "none", "9p"} THEN name ELSE "usb"
ReadLocation(name) == IF name = "9p" THEN "9p" ELSE "byLabel"

\* What has the value 0 is left out of the file, but for the lcd.
WriteLcd(lcd) == lcd
WriteValidation(validation) == IF validation = "none" THEN "" ELSE validation
WriteLocation(location) == IF location = "byLabel" THEN "" ELSE location

\* The recovery volume is found by its label, and must be attached as the
\* platform says.  One that never appears is returned all the same.
ValidateFn(validation, bus) ==
  CASE validation = "none" -> TRUE [] validation = "9p" -> FALSE [] OTHER -> bus = validation
FindRecoveryDev(location, validation, volume) ==
  CASE location = "9p" -> "9p"
    [] location = "byLabel" /\ volume.present /\ ~ValidateFn(validation, volume.bus) -> "none"
    [] OTHER -> "byLabel"
FsOpts(media) ==
  media.additional
    \o (IF media.override THEN << >> ELSE <<"auto", "noexec", "relatime", "nofail", "uid", "gid">>)
    \o (IF media.ssd THEN <<"discard">> ELSE << >>)

\* Prefixes of network addresses; one that cannot be read is left out, and
\* the star allows them all.
MACPrefixes(prefixes) ==
  IF prefixes = <<"*">> THEN {} ELSE {p \in ToSet(prefixes) : p # "unreadable"}

\* The facts that restore leaves for the installed system, where only a
\* prototype may be said to have the lcd that was found, and what is read
\* of them there.
WriteOut(facts, lcdFound) ==
  [prototype  |-> facts.prototype,
   lcd        |-> WriteLcd(IF facts.prototype /\ lcdFound # "none" THEN lcdFound ELSE facts.lcd),
   validation |-> WriteValidation(facts.validation), location |-> WriteLocation(facts.location)]
Read(file) ==
  [prototype |-> file.prototype, lcd |-> ReadLcd(file.lcd),
   validation |-> ReadValidation(file.validation), location |-> ReadLocation(file.location)]
=============================================================================
