-------------------------------- MODULE Mrz --------------------------------
(***************************************************************************)
(* The machine-readable zone of a passport (app/services/mrz.py) and the   *)
(* choice among several reads of one image (app/providers/mrz_reader.py).  *)
(*                                                                         *)
(* A character is its code: the digits 0..9, the letters 10..35, the       *)
(* filler "<" 36, and one code for everything else.  Of line 1 only "P"    *)
(* matters to a verdict, so a read is a second line under a "P" line.      *)
(* A document is printed, and a reader slips at most once in a read.       *)
(***************************************************************************)
EXTENDS Integers, Sequences, FiniteSets, FiniteSetsExt, SequencesExt

CONSTANTS
    Documents,  \* the fields of the passports presented
    Misreads,   \* what the OCR may mistake in one read: a place and a character (bound)
    Unread,     \* no MRZ was located
    MaxReads    \* reads of one image: raw and preprocessed (bound)

Filler == 36
Illegal == 37
Chars == 0..Illegal

\* Texts of n characters that are printed: none is a stray.
Text(n) == [1..n -> 0..Filler]

\* What make_mrz is given: a longer number would be cut, and a field of another length
\* would displace those after it.
ASSUME DocumentAssumption ==
    \A f \in Documents :
        /\ \E n \in 0..9 : f.number \in Text(n)
        /\ f.nationality \in Text(3) /\ f.dob \in Text(6)
        /\ f.sex \in 0..Filler /\ f.expiry \in Text(6)

ASSUME MisreadAssumption == Misreads \subseteq (1..44) \X Chars /\ Unread \notin [1..44 -> Chars]

VARIABLES
    printed,   \* line 2 of the document
    seen,      \* line 2 as it was read
    slip,      \* what the reader did: nothing, one substitution or one transposition
    reads      \* what the reads of an image returned, the raw one first

mrzVars == <<printed, seen, slip, reads>>

-----------------------------------------------------------------------------

ValueOf(c) == IF c = Filler THEN 0 ELSE c

\* A plain sum.
EqualWeight(i) == 1

Weight(i) == <<7, 3, 1>>[((i - 1) % 3) + 1]

\* The total after each character.
Totals(field) ==
    LET total[i \in 0..Len(field)] ==
            IF i = 0 THEN 0 ELSE total[i - 1] + ValueOf(field[i]) * Weight(i)
    IN  total

CheckDigit(field) ==
    IF Illegal \in Range(field) THEN -1 ELSE Totals(field)[Len(field)] % 10

\* line[first:last]
PartShort(line, first, last) == SubSeq(line, first + 1, last)

\* line[first:last + 1], in the positions of mrz.py:8-19.
Part(line, first, last) == SubSeq(line, first + 1, last + 1)
At(line, i) == line[i + 1]

\* Where each check digit stands, and what it covers.
Checked ==
    [passport_number |-> [first |-> 0,  last |-> 8,  digit |-> 9],
     dob             |-> [first |-> 13, last |-> 18, digit |-> 19],
     expiry          |-> [first |-> 21, last |-> 26, digit |-> 27],
     personal_number |-> [first |-> 28, last |-> 41, digit |-> 42]]

CompositeOf(line) ==
    Part(line, 0, 9) \o Part(line, 13, 19) \o Part(line, 21, 27) \o Part(line, 28, 42)

FieldChecks(line) ==
    {name \in DOMAIN Checked :
        LET c == Checked[name]
        IN  CheckDigit(Part(line, c.first, c.last)) # At(line, c.digit)}

\* Without the composite.
FailedFieldChecks(line) == IF Len(line) # 44 THEN {"line_length"} ELSE FieldChecks(line)

\* validate_td3: failed_checks.
FailedChecks(line) ==
    IF Len(line) # 44 THEN {"line_length"}
    ELSE FieldChecks(line) \cup
         {x \in {"composite"} : CheckDigit(CompositeOf(line)) # At(line, 43)}

IsValid(line) == FailedChecks(line) = {}

\* The elements of s that are in kept, after each place of s.
Kept(s, kept) ==
    LET after[i \in 0..Len(s)] ==
            IF i = 0 THEN <<>>
            ELSE IF s[i] \in kept THEN Append(after[i - 1], s[i]) ELSE after[i - 1]
    IN  after

Only(s, kept) == Kept(s, kept)[Len(s)]

\* replace("<", "")
Unfilled(s) == Only(s, Chars \ {Filler})

\* validate_td3: extracted.
Extracted(line) ==
    [number |-> Unfilled(Part(line, 0, 8)), nationality |-> Unfilled(Part(line, 10, 12)),
     dob |-> Part(line, 13, 18), sex |-> At(line, 20), expiry |-> Part(line, 21, 26)]

\* s.ljust(n, "<")[:n]
Padded(s, n) == [i \in 1..n |-> IF i <= Len(s) THEN s[i] ELSE Filler]

\* make_mrz: line 2.
MakeMrz(f) ==
    LET number == Padded(f.number, 9)
        personal == [i \in 1..14 |-> Filler]
        Closed(field) == Append(field, CheckDigit(field))
        composite == Closed(number) \o Closed(f.dob) \o Closed(f.expiry) \o Closed(personal)
    IN  Padded(Closed(number) \o f.nationality \o Closed(f.dob) \o <<f.sex>> \o Closed(f.expiry)
                 \o Closed(personal) \o <<CheckDigit(composite)>>, 44)

-----------------------------------------------------------------------------
(* One image, read several times.                                          *)

TrimmedRight(s) == SubSeq(s, 1, Max({0} \cup {i \in DOMAIN s : s[i] # Filler}))

\* PassportEye's fields of a second line; the fillers that end one may be gone.
OcrFields(line) ==
    [number |-> TrimmedRight(Part(line, 0, 8)), nationality |-> TrimmedRight(Part(line, 10, 12)),
     dob |-> Part(line, 13, 18), sex |-> At(line, 20), expiry |-> Part(line, 21, 26),
     personal |-> TrimmedRight(Part(line, 28, 41)),
     digits |-> <<At(line, 9), At(line, 19), At(line, 27), At(line, 42), At(line, 43)>>]

\* Strays are dropped.
CleanDropping(s) == Only(s, Chars \ {Illegal})

\* _clean: a stray becomes a filler.
Clean(s) == [i \in DOMAIN s |-> IF s[i] = Illegal THEN Filler ELSE s[i]]

\* _reconstruct_td3: line 2.
Reconstruct(d) ==
    Padded(Padded(Clean(d.number), 9) \o <<d.digits[1]>> \o Padded(Clean(d.nationality), 3)
             \o d.dob \o <<d.digits[2]>> \o <<d.sex>> \o d.expiry \o <<d.digits[3]>>
             \o Padded(Clean(d.personal), 14) \o <<d.digits[4], d.digits[5]>>, 44)

FirstRead(candidates) ==
    LET read == Only(candidates, Range(candidates) \ {Unread})
    IN  IF read = <<>> THEN Unread ELSE Head(read)

\* _choose_mrz: the first valid read, or the first read at all.
Choose(candidates) ==
    LET valid == Only(candidates, {c \in Range(candidates) : c # Unread /\ IsValid(c)})
    IN  IF valid # <<>> THEN Head(valid) ELSE FirstRead(candidates)

\* PassportEyeMrzReader.read: a valid raw read is not second-guessed.  Unread: ValueError.
ReadImage(raw, variants) ==
    IF raw # Unread /\ IsValid(raw) THEN raw ELSE Choose(<<raw>> \o variants)

-----------------------------------------------------------------------------

MrzInit ==
    /\ printed \in {MakeMrz(f) : f \in Documents}
    /\ seen = printed
    /\ slip = "none"
    /\ reads = <<>>

Substitute(i, c) ==
    /\ slip = "none" /\ reads = <<>> /\ c # printed[i]
    /\ seen' = [printed EXCEPT ![i] = c]
    /\ slip' = "substitution"
    /\ UNCHANGED <<printed, reads>>

Transpose(i) ==
    /\ slip = "none" /\ reads = <<>> /\ printed[i] # printed[i + 1]
    /\ seen' = [printed EXCEPT ![i] = printed[i + 1], ![i + 1] = printed[i]]
    /\ slip' = "transposition"
    /\ UNCHANGED <<printed, reads>>

\* What the OCR may see of line 2 in the image or a variant of it.
OcrLines == {printed, Unread} \cup {[printed EXCEPT ![m[1]] = m[2]] : m \in Misreads}

\* _read_one, of the image or of a preprocessed variant of it.
ReadOne(line) ==
    /\ slip = "none" /\ Len(reads) < MaxReads
    /\ reads' = Append(reads, IF line = Unread THEN Unread ELSE Reconstruct(OcrFields(line)))
    /\ UNCHANGED <<printed, seen, slip>>

MrzNext ==
    \/ \E i \in 1..44, c \in Chars : Substitute(i, c)
    \/ \E i \in 1..43 : Transpose(i)
    \/ \E line \in OcrLines : ReadOne(line)

MrzSpec == MrzInit /\ [][MrzNext]_mrzVars

-----------------------------------------------------------------------------

\* What make_mrz prints validates, and every field is read back from it, the number and
\* the nationality without fillers ("D<<").
PrintedIsRead ==
    /\ IsValid(printed)
    /\ \A f \in Documents :
           printed = MakeMrz(f) =>
              LET e == Extracted(printed)
              IN  /\ e.number = Unfilled(f.number) /\ e.nationality = Unfilled(f.nationality)
                  /\ e.dob = f.dob /\ e.sex = f.sex /\ e.expiry = f.expiry

FieldOf(i) == {name \in DOMAIN Checked : i - 1 \in Checked[name].first..Checked[name].last}
CheckDigits == {Checked[name].digit : name \in DOMAIN Checked} \cup {43}
Slipped == {i \in 1..44 : seen[i] # printed[i]}

\* No check digit tells c from what is printed at place i: none covers the place
\* (nationality, sex), or its field does and the values are the same modulo 10.
Undetected(i, c) ==
    \/ FieldOf(i) = {} /\ i - 1 \notin CheckDigits
    \/ FieldOf(i) # {} /\ c # Illegal /\ (ValueOf(c) - ValueOf(printed[i])) % 10 = 0

\* mrz.py:3-6, "deterministically rejects fabricated/typo'd passport numbers, dates,
\* and tampered fields", exactly: one wrong character passes only undetected.
WrongCharacterIsRejected ==
    slip = "substitution" => \A i \in Slipped : IsValid(seen) <=> Undetected(i, seen[i])

\* Two neighbours of one field exchanged pass only if their values differ by a
\* multiple of 5: the weights of neighbours differ by an even number.
SwappedCharactersAreRejected ==
    slip = "transposition" =>
        \A i, j \in Slipped :
            i < j /\ FieldOf(i) # {} /\ FieldOf(i) = FieldOf(j) =>
                (IsValid(seen) <=> (ValueOf(seen[i]) - ValueOf(seen[j])) % 5 = 0)

\* Preprocessing is "strictly additive" (mrz_reader.py:91-97): if one read of the image
\* is right, whatever one character the others mistook, the passport is accepted;
\* and what is accepted is what is printed, but for what no check digit tells.
ReadIsTheDocument ==
    reads # <<>> =>
        LET chosen == ReadImage(Head(reads), Tail(reads))
            accepted == chosen # Unread /\ IsValid(chosen)
        IN  /\ printed \in Range(reads) => accepted
            /\ accepted => \A i \in 1..44 : chosen[i] # printed[i] => Undetected(i, chosen[i])

\* Rebuilding line 2 from the OCR's fields (mrz_reader.py:52-76) moves no character: a
\* stray one in a name or number becomes a filler, so that its check digit decides.
RebuiltInPlace ==
    LET cleaned == 0..8 \cup 10..12 \cup 28..41
    IN  Reconstruct(OcrFields(seen)) =
            [i \in 1..44 |-> IF i - 1 \in cleaned /\ seen[i] = Illegal THEN Filler ELSE seen[i]]
=============================================================================
