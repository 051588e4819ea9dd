-------------------------- MODULE FirmwareReadback --------------------------
(***************************************************************************)
(* The boot firmware: where a board's signed policy says its loader lies,  *)
(* the rules that keep it clear of the boot records, and                   *)
(* `mica-deploy firmware-readback`, which compares the installed loader    *)
(* with a signed manifest and records the receipt (crates/mica-deploy/src/ *)
(* {board,firmware,fit_env}.rs).  Addresses and lengths are in sectors; a  *)
(* recovery package, not this code, writes the loader.                     *)
(***************************************************************************)
EXTENDS Integers, Sequences

CONSTANTS
    FwPolicies,     \* the board sections a policy may state
    FwLength,       \* the loaders: version -> its sectors
    FwFirst,        \* FIRST_USABLE_BYTE
    FwEfiMax,       \* EFI_MAX_BYTES
    FwLoaderMax,    \* LOADER_MAX_BYTES
    FwEnv,          \* ENV_SIZE
    FwMaxSectors,   \* MAX_SECTORS, of a boot partition
    FwWord,         \* what an offset wraps at
    FwSize,         \* the medium's sectors
    FwErase,        \* those of an erase block
    FwEvents        \* bound: loaders written, blocks gone bad, records saved, readbacks

(* A loader is not empty; a board section is of the board's medium, so that *)
(* the boot partition and the copies of the records it states lie in it.    *)
ASSUME FirmwareAssumption ==
    /\ FwSize \in Nat /\ FwEnv \in Nat \ {0} /\ FwWord \in Nat /\ FwLoaderMax \in Nat /\ FwFirst \in Nat
    /\ "none" \notin DOMAIN FwLength /\ \A v \in DOMAIN FwLength : FwLength[v] \in Nat \ {0}
    /\ \A p \in FwPolicies :
        /\ p.target.offset \in Nat /\ p.target.max \in Nat /\ p.start \in Nat /\ p.sectors \in Nat
        /\ p.start + p.sectors <= FwSize
        /\ \A i \in 1..2 : p.offsets[i] \in Nat /\ p.start + p.offsets[i] + FwEnv <= FwSize

VARIABLES
    fwPolicy,       \* the board section
    fwPhase,        \* "policy" until it is validated, then "booted" or "refused"
    fwMedium,       \* what each sector of the target's medium holds
    fwBad,          \* the erase blocks marked bad
    fwJob,          \* the readback under way
    fwReceipt,      \* the loader the receipt names
    fwTouched,      \* whether the loader was written, or a block went bad, since what the receipt compared
    fwUsed          \* events so far

fwVars == <<fwPolicy, fwPhase, fwMedium, fwBad, fwJob, fwReceipt, fwTouched, fwUsed>>

Versions == DOMAIN FwLength
NoVersion == "none"
Blank == <<"blank", 0>>
RecordSector == <<"record", 0>>
Loader(v) == [i \in 1..FwLength[v] |-> <<v, i>>]
NoReadback == [at |-> "idle", of |-> NoVersion, record |-> FALSE, offset |-> 0, data |-> <<>>, touched |-> FALSE]

Targets == {p.target : p \in FwPolicies}
Copies(p) == IF p.backend = "fit" THEN {p.start + o : o \in {p.offsets[1], p.offsets[2]}} ELSE {}
CopySectors(p) == UNION {c..(c + FwEnv - 1) : c \in Copies(p)}

FwInit ==
    /\ fwPolicy \in FwPolicies /\ fwPhase = "policy"
    /\ fwMedium = [a \in 0..(FwSize - 1) |->
                    IF fwPolicy.target.format = "range" /\ a \in CopySectors(fwPolicy) THEN RecordSector ELSE Blank]
    /\ fwBad = {} /\ fwJob = NoReadback /\ fwReceipt = NoVersion /\ fwTouched = FALSE
    /\ fwUsed = 0

FwEvent == fwPhase = "booted" /\ fwUsed < FwEvents /\ fwUsed' = fwUsed + 1

----------------------------------------------------------------------------
(* The policy.                                                             *)

(* A target's limit in sectors; 0 when it is not valid.                    *)
Limit(t) ==
    CASE t.format = "efi" -> FwEfiMax
      [] t.format = "range" ->
            IF t.offset >= FwFirst /\ t.max \in 1..FwLoaderMax /\ t.offset + t.max < FwWord THEN t.max ELSE 0
      [] t.format = "emmc" ->
            IF t.max \in 1..FwLoaderMax /\ t.offset + t.max <= FwLoaderMax THEN t.max ELSE 0
      [] t.format = "mtd" -> IF t.max \in 1..FwLoaderMax THEN t.max ELSE 0

(* Two copies inside the boot partition and apart; the sum is of machine   *)
(* words.                                                                  *)
LayoutValid(p) ==
    /\ p.start \in 1..FwMaxSectors /\ p.sectors \in 1..FwMaxSectors
    /\ \A i \in 1..2 : (p.offsets[i] + FwEnv) % FwWord <= p.sectors
    /\ LET apart == p.offsets[1] - p.offsets[2] IN apart >= FwEnv \/ -apart >= FwEnv

(* A loader range ends inside the boot partition and clear of both copies. *)
RangeValid(p) ==
    LET end == p.target.offset + p.target.max
    IN  /\ end <= p.start + p.sectors
        /\ \A c \in Copies(p) : end <= c \/ p.target.offset >= c + FwEnv

PolicyValid(p) ==
    /\ Limit(p.target) > 0
    /\ \/ p.backend = "uefi" /\ p.target.format = "efi" /\ p.target.own
       \/ p.backend = "fit" /\ LayoutValid(p)
            /\ (p.target.format = "emmc" \/ (p.target.format = "range" /\ RangeValid(p)))
       \/ p.backend = "ubi" /\ p.target.format = "mtd" /\ p.target.own

LoadPolicy ==
    /\ fwPhase = "policy"
    /\ fwPhase' = IF PolicyValid(fwPolicy) THEN "booted" ELSE "refused"
    /\ UNCHANGED <<fwPolicy, fwMedium, fwBad, fwJob, fwReceipt, fwTouched, fwUsed>>

----------------------------------------------------------------------------
(* The medium.  The boot ROM reads a loader from its start, on NAND past   *)
(* the bad erase blocks, and so it is written.                             *)

LoaderSectors ==
    LET t == fwPolicy.target
    IN  CASE t.format = "efi" -> [i \in 1..FwSize |-> i - 1]
          [] t.format \in {"range", "emmc"} -> [i \in 1..(FwSize - t.offset) |-> t.offset + i - 1]
          [] t.format = "mtd" -> SelectSeq([i \in 1..FwSize |-> i - 1], LAMBDA a : a \div FwErase \notin fwBad)

RomReads(v) ==
    /\ Len(LoaderSectors) >= FwLength[v]
    /\ \A i \in 1..FwLength[v] : fwMedium[LoaderSectors[i]] = <<v, i>>

(* The recovery package writes a loader that fits; a power cut stops it.   *)
WriteLoader(v, upTo) ==
    /\ FwEvent /\ FwLength[v] <= Limit(fwPolicy.target)
    /\ upTo \in 1..FwLength[v] /\ upTo <= Len(LoaderSectors)
    /\ fwMedium' = [a \in DOMAIN fwMedium |->
                     LET at == {i \in 1..upTo : LoaderSectors[i] = a}
                     IN  IF at # {} THEN <<v, CHOOSE i \in at : TRUE>>
                         ELSE IF fwPolicy.target.format = "efi" THEN Blank ELSE fwMedium[a]]
    /\ fwTouched' = TRUE /\ fwJob' = [fwJob EXCEPT !.touched = TRUE]
    /\ UNCHANGED <<fwPolicy, fwPhase, fwBad, fwReceipt>>

BlockGoesBad(b) ==
    /\ FwEvent /\ fwPolicy.target.format = "mtd" /\ b \notin fwBad
    /\ fwBad' = fwBad \cup {b}
    /\ fwTouched' = TRUE /\ fwJob' = [fwJob EXCEPT !.touched = TRUE]
    /\ UNCHANGED <<fwPolicy, fwPhase, fwMedium, fwReceipt>>

(* A boot record is saved on a disk that holds the loader too.             *)
SaveRecord(c) ==
    /\ FwEvent /\ fwPolicy.target.format = "range" /\ c \in Copies(fwPolicy)
    /\ fwMedium' = [a \in DOMAIN fwMedium |-> IF a \in c..(c + FwEnv - 1) THEN RecordSector ELSE fwMedium[a]]
    /\ UNCHANGED <<fwPolicy, fwPhase, fwBad, fwJob, fwReceipt, fwTouched>>

----------------------------------------------------------------------------
(* The readback, under the deployment lock.                                *)

(* The manifest's target is the board's, and the loader within its limit.  *)
AdmitFirmware(v, t) == t = fwPolicy.target /\ FwLength[v] <= Limit(fwPolicy.target)

FirmwareReadback(v, t, record) ==
    /\ FwEvent /\ fwJob.at = "idle" /\ AdmitFirmware(v, t)
    /\ fwJob' = [NoReadback EXCEPT !.at = "read", !.of = v, !.record = record]
    /\ UNCHANGED <<fwPolicy, fwPhase, fwMedium, fwBad, fwReceipt, fwTouched>>

(* n sectors of a device that starts and ends at these, from one of them;  *)
(* fewer at its end.                                                       *)
Sectors(start, end, from, n) ==
    [i \in 1..(IF start + from + n <= end THEN n ELSE IF start + from < end THEN end - start - from ELSE 0) |->
        fwMedium[start + from + i - 1]]

(* An EFI file is read whole and refused when longer; a range inside the   *)
(* boot partition is read through it, one before it from the whole disk.   *)
ReadAtOnce ==
    LET t == fwPolicy.target
        n == FwLength[fwJob.of]
    IN  CASE t.format = "efi" -> SelectSeq(Sectors(0, FwSize, 0, FwSize), LAMBDA s : s # Blank)
          [] t.format = "range" ->
                IF t.offset >= fwPolicy.start
                THEN Sectors(fwPolicy.start, fwPolicy.start + fwPolicy.sectors, t.offset - fwPolicy.start, n)
                ELSE Sectors(0, FwSize, t.offset, n)
          [] t.format = "emmc" -> Sectors(0, FwSize, t.offset, n)

VerifyInstalled ==
    /\ fwJob.at = "read" /\ fwPolicy.target.format # "mtd"
    /\ fwJob' = [fwJob EXCEPT !.at = "compare", !.data = ReadAtOnce]
    /\ UNCHANGED <<fwPolicy, fwPhase, fwMedium, fwBad, fwReceipt, fwTouched, fwUsed>>

(* One erase block of an MTD loader.                                       *)
\* Mutant: a bad block is read like the others
ReadBlockBlind(job) ==
    LET missing == FwLength[job.of] - Len(job.data)
        take == IF missing < FwErase THEN missing ELSE FwErase
    IN  [job EXCEPT !.offset = @ + FwErase, !.data = @ \o Sectors(0, FwSize, job.offset, take)]

ReadBlock(job) ==
    LET missing == FwLength[job.of] - Len(job.data)
        take == IF missing < FwErase THEN missing ELSE FwErase
    IN  IF job.offset \div FwErase \in fwBad THEN [job EXCEPT !.offset = @ + FwErase]
        ELSE [job EXCEPT !.offset = @ + FwErase, !.data = @ \o Sectors(0, FwSize, job.offset, take)]

(* Until it has as many as the manifest says, and never past the partition.*)
ReadSkippingBad ==
    /\ fwJob.at = "read" /\ fwPolicy.target.format = "mtd"
    /\ fwJob' = IF Len(fwJob.data) >= FwLength[fwJob.of] THEN [fwJob EXCEPT !.at = "compare"]
                ELSE IF fwJob.offset >= FwSize THEN NoReadback
                ELSE ReadBlock(fwJob)
    /\ UNCHANGED <<fwPolicy, fwPhase, fwMedium, fwBad, fwReceipt, fwTouched, fwUsed>>

(* Length and digest; then the receipt, written in whole.                  *)
CompareAndRecord ==
    /\ fwJob.at = "compare"
    /\ IF fwJob.data = Loader(fwJob.of) /\ fwJob.record
       THEN fwReceipt' = fwJob.of /\ fwTouched' = fwJob.touched
       ELSE UNCHANGED <<fwReceipt, fwTouched>>
    /\ fwJob' = NoReadback
    /\ UNCHANGED <<fwPolicy, fwPhase, fwMedium, fwBad, fwUsed>>

FwNext ==
    \/ LoadPolicy
    \/ \E v \in Versions : \E upTo \in 1..FwLength[v] : WriteLoader(v, upTo)
    \/ \E b \in 0..((FwSize \div FwErase) - 1) : BlockGoesBad(b)
    \/ \E c \in CopySectors(fwPolicy) : SaveRecord(c)
    \/ \E v \in Versions, t \in Targets, record \in BOOLEAN : FirmwareReadback(v, t, record)
    \/ VerifyInstalled \/ ReadSkippingBad \/ CompareAndRecord

FwSpec == FwInit /\ [][FwNext]_fwVars

----------------------------------------------------------------------------
(* Properties.                                                             *)

\* A receipt tells the truth: until the loader is written again or a block goes bad, what the boot
\* ROM reads is the loader the receipt names, whatever blocks were bad before and however many boot
\* records were saved since; and no loader the policy allows reaches the records that select the
\* deployment it loads (firmware.rs read_skipping_bad and verify_installed, board.rs validate_gpt).
ReceiptTells ==
    /\ fwReceipt # NoVersion /\ ~fwTouched => RomReads(fwReceipt)
    /\ fwPhase = "booted" /\ fwPolicy.target.format = "range" =>
        \A a \in CopySectors(fwPolicy) : fwMedium[a] = RecordSector

=============================================================================
