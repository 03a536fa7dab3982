------------------------------ MODULE Decisions ------------------------------
(***************************************************************************)
(* Five of the server's pure decisions as steps: the registry-host         *)
(* boundary, delegated authentication, private artifact reads, binary      *)
(* archive verification and package admission.  A behaviour takes one      *)
(* input and decides it once; the sets of inputs are parameters.           *)
(***************************************************************************)
EXTENDS RegistryHost, SharedAuth, BinaryArtifact, PackageIntake

CONSTANTS Requests,    \* HTTP requests at the boundary
          Logins,      \* a presented token, its verdict and the web client
          Reads,       \* reads of an artifact by digest
          Archives,    \* an archive, its descriptor and the limits set
          Admissions   \* a package and the evidence about it

(* The inputs have the shape the code parses; nothing is said of their      *)
(* values, and any number of them may be given.                             *)
ASSUME RequestsAssumption ==
  Requests \subseteq
    [header : Seq(STRING), authority : Seq(STRING), port : STRING, method : STRING,
     path : [segs : Seq(STRING), rooted : BOOLEAN, trailing : BOOLEAN, refused : BOOLEAN]]

ASSUME LoginsAssumption == Logins \subseteq [call : Call, claims : Verdict, application_id : STRING]

ASSUME ReadsAssumption ==
  Reads \subseteq [call : Call, claims : Verdict, known : BOOLEAN,
                   refs : SUBSET [public : BOOLEAN, member : BOOLEAN], recorded : BOOLEAN,
                   plane : STRING]

ASSUME ArchivesAssumption ==
  Archives \subseteq [archive : Seq(Entries), d : Listings, limits : Limits]

ASSUME AdmissionsAssumption == Admissions \subseteq Admission

VARIABLES subject, input, verdict
decideVars == <<subject, input, verdict>>

Inputs(s) ==
  CASE s = "host" -> Requests [] s = "login" -> Logins [] s = "artifact" -> Reads
    [] s = "archive" -> Archives [] s = "admission" -> Admissions

Subjects == {"host", "login", "artifact", "archive", "admission"}

DecideInit == /\ subject \in Subjects
              /\ input \in Inputs(subject)
              /\ verdict = <<>>

Decide(s, v) == subject = s /\ verdict = <<>> /\ verdict' = <<v>> /\ UNCHANGED <<subject, input>>

DecideNext ==
  \/ Decide("host", decide(input))
  \/ Decide("login", require_account(input.call, input.claims, input.application_id))
  \/ Decide("artifact", get_artifact(input.call, input.claims, input.known, input.refs, input.recorded,
                                    input.plane))
  \/ Decide("archive", verify_publish(input.archive, input.d, input.limits))
  \/ Decide("admission", evaluate(input))

DecideSpec == DecideInit /\ [][DecideNext]_decideVars

Decided(s) == subject = s /\ verdict # <<>>

-----------------------------------------------------------------------------
(* On a registry host, the boundary table of registry_host.rs and the      *)
(* routers behind it agree (BoundaryAgrees).                               *)
RegistryHostIsMachineOnly == Decided("host") => BoundaryAgrees(input, verdict[1])

(* auth.rs: one delegated token opens one surface, and 403 and 503 are     *)
(* attributed to the token and to the service (OneSurfacePerToken).        *)
TokensOpenOneSurface == Decided("login") => OneSurfacePerToken(input.call, input.claims, input.application_id)

(* artifacts.rs: an outsider cannot tell a private artifact from one that  *)
(* does not exist, and no failure opens it (PrivateArtifactIsConcealed).   *)
ArtifactsAreConcealed ==
  Decided("artifact") => PrivateArtifactIsConcealed(input.call, input.claims, input.known, input.refs, input.plane)

(* binary_artifact.rs: an accepted archive unpacks to what its descriptor  *)
(* says, and a source archive hides no descriptor (UnpacksAsDescribed).    *)
ArchivesUnpackAsDescribed == Decided("archive") => UnpacksAsDescribed(input.archive, input.d, verdict[1])

(* package_intake.rs: late evidence never revises a decision, and replaced *)
(* evidence never inherits an admission (AdmissionIsBound).                *)
AdmissionsAreBound == Decided("admission") => AdmissionIsBound(input)
====
