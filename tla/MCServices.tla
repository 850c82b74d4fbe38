----------------------------- MODULE MCServices -----------------------------
(***************************************************************************)
(* The services around the pipeline, each with its instance for TLC.  They *)
(* share no state, so a behaviour exercises one of them, its part, and the *)
(* others rest in their initial state.                                     *)
(***************************************************************************)
EXTENDS Ledger, Credentials, RateLimit, Mrz, LivenessDetection, Media, DedupIndex, Wizard, Storage, TLC

CONSTANTS
    Parts,       \* the services that a run exercises
    h1, h2, h3

(* Passports: a full number with letters, a short one, dates of all digits. *)
Full == [number |-> <<21, 8, 9, 8, 9, 0, 2, 12, 3>>, nationality |-> <<30, 29, 24>>,
         dob |-> <<7, 4, 0, 8, 1, 2>>, sex |-> 22, expiry |-> <<3, 2, 0, 1, 0, 1>>]
Short == [Full EXCEPT !.number = <<10, 20, 5>>, !.nationality = <<13, Filler, Filler>>,
                       !.sex = 15, !.dob = <<9, 9, 1, 2, 3, 1>>]

MCDocuments == {Full, Short}

(* Mistakes of the OCR: told by a check digit, strays, a look-alike of the first       *)
(* character (L and 1, A and 0), and a place that no digit covers.                     *)
MCMisreads == {<<3, 2>>, <<44, 0>>, <<2, Illegal>>, <<14, Illegal>>, <<1, 1>>, <<1, 0>>, <<11, 5>>}

AllFrames == Frame
RequestedActions == {-5, -1, 2}

(* Templates: h1 and h2 are of one model and alike, h3 is of another model. *)
MCEmbeddingOf == h1 :> "a" @@ h2 :> "b" @@ h3 :> "wide"
MCQueries == {"no_face", "a", "b", "c", "wide"}
MCDimOf == [e \in MCQueries |-> CASE e = "no_face" -> 0 [] e = "wide" -> 512 [] OTHER -> 128]
MCCosine == [pair \in MCQueries \X MCQueries |->
                IF pair[1] = pair[2] THEN 100
                ELSE IF {pair[1], pair[2]} = {"a", "b"} THEN 90 ELSE 10]

MCDiskOf == [p \in Replicas |-> CHOOSE d \in Disks : TRUE]

VARIABLE part

AllParts == {"ledger", "credentials", "rate limit", "mrz", "liveness", "media", "index", "wizard", "storage"}
CredentialsPart == {"credentials"}
MediaPart == {"media"}
WizardPart == {"wizard"}

ServicesInit ==
    /\ part \in Parts
    /\ Init /\ CredInit /\ RateInit /\ LivenessInit /\ MediaInit
    /\ MrzInit /\ (part = "mrz" \/ printed = MakeMrz(Full))
    /\ IndexInit /\ (part = "index" \/ backend = [p \in Processes |-> "linear"])
    /\ WizardInit /\ (part = "wizard" \/ dispatch = "inline")
    /\ StorageInit /\ (part = "storage" \/ env = EnvKey)

Rest(others) == UNCHANGED <<part, others>>

ServicesNext ==
    \/ /\ part = "ledger" /\ Next
       /\ Rest(<<credVars, rateVars, mrzVars, clip, mediaVars, indexVars, wizVars, storageVars>>)
    \/ /\ part = "credentials" /\ CredNext
       /\ Rest(<<vars, rateVars, mrzVars, clip, mediaVars, indexVars, wizVars, storageVars>>)
    \/ /\ part = "rate limit" /\ RateNext
       /\ Rest(<<vars, credVars, mrzVars, clip, mediaVars, indexVars, wizVars, storageVars>>)
    \/ /\ part = "mrz" /\ MrzNext
       /\ Rest(<<vars, credVars, rateVars, clip, mediaVars, indexVars, wizVars, storageVars>>)
    \/ /\ part = "liveness" /\ LivenessNext
       /\ Rest(<<vars, credVars, rateVars, mrzVars, mediaVars, indexVars, wizVars, storageVars>>)
    \/ /\ part = "media" /\ MediaNext
       /\ Rest(<<vars, credVars, rateVars, mrzVars, clip, indexVars, wizVars, storageVars>>)
    \/ /\ part = "index" /\ IndexNext
       /\ Rest(<<vars, credVars, rateVars, mrzVars, clip, mediaVars, wizVars, storageVars>>)
    \/ /\ part = "wizard" /\ WizardNext
       /\ Rest(<<vars, credVars, rateVars, mrzVars, clip, mediaVars, indexVars, storageVars>>)
    \/ /\ part = "storage" /\ StorageNext
       /\ Rest(<<vars, credVars, rateVars, mrzVars, clip, mediaVars, indexVars, wizVars>>)

ServicesSpec ==
    /\ ServicesInit
    /\ [][ServicesNext]_<<part, vars, credVars, rateVars, mrzVars, clip, mediaVars, indexVars, wizVars, storageVars>>
    /\ part = "media" => MediaFairness
    /\ part = "wizard" => WizardFairness
=============================================================================
