----------------------------- MODULE SharedAuth -----------------------------
(***************************************************************************)
(* Delegated authentication of src/auth.rs over the introspection client   *)
(* of src/shared_auth.rs, and the one machine route that uses it: reading  *)
(* a private artifact (src/routes/artifacts.rs).                           *)
(*                                                                         *)
(* A claim is "none" (absent or null), "bad" (blank, over-long or not a    *)
(* string) or its value after trimming; a scope claim's value names which  *)
(* of the two scopes it lists.  An answer is an HTTP status and a code.    *)
(***************************************************************************)
EXTENDS Naturals, Sequences

Answer(status, code) == [status |-> status, code |-> code]
unauthorized == Answer(401, "unauthorized")
auth_unavailable == Answer(503, "auth_unavailable")
not_found == Answer(404, "not_found")
data_plane_unavailable == Answer(503, "registry_data_plane_unavailable")
internal == Answer(500, "internal")
forbidden(code) == Answer(403, code)
Ok == Answer(200, "ok")

(* The early returns of a handler in order: <<holds, answer when it does   *)
(* not>>; the first check that fails answers.                              *)
FirstRefusal(checks) ==
  LET failing == {i \in 1..Len(checks) : ~checks[i][1]}
  IN  IF failing = {} THEN Ok
      ELSE checks[CHOOSE i \in failing : \A j \in failing : i <= j][2]

(***************************************************************************)
(* The client.  A call is [bearer, client, audience, credential, base,     *)
(* reply]: the presented token, whether a client is configured, whether    *)
(* the three configured texts are well formed, and what the service does:  *)
(* "verdict", "401", another "status", no answer ("transport") or one that *)
(* is too large or not JSON ("garbled").                                   *)
(***************************************************************************)
Call == [bearer : STRING, client : BOOLEAN, audience : BOOLEAN, credential : BOOLEAN,
         base : BOOLEAN, reply : STRING]

introspect_for_audience(call) ==
  IF ~(call.bearer = "ok" /\ call.audience /\ call.credential) THEN "InvalidInput"
  ELSE IF ~call.base THEN "InvalidBaseUrl"
  ELSE CASE call.reply = "verdict" -> "verdict"
         [] call.reply = "401" -> "Unauthorized"
         [] call.reply = "status" -> "Status"
         [] call.reply = "transport" -> "Transport"
         [] OTHER -> "Decode"

map_shared_auth_error(error) ==
  IF error \in {"Unauthorized", "InvalidInput"} THEN unauthorized ELSE auth_unavailable

(***************************************************************************)
(* From a verdict to an identity.  Every consulted claim must be absent or *)
(* well formed, in the order the code consults them; both realm claims are *)
(* read before the first present one is taken.                             *)
(***************************************************************************)
Verdict == [active : BOOLEAN, sub : STRING, iss : STRING, sid : STRING, azp : STRING,
            parent_jti : STRING, scope : STRING, auth_realm : STRING, realm : STRING,
            display_name : STRING, avatar_url : STRING]

Readable(v, key) == <<v[key] # "bad", unauthorized>>
Present(v, key, code) == <<v[key] # "none", forbidden(code)>>

required_claim(v, key) == <<v[key] \notin {"none", "bad"}, unauthorized>>

Realm(v) ==
  IF v.auth_realm # "none" THEN v.auth_realm
  ELSE IF v.realm # "none" THEN v.realm ELSE "customer"

Scopes(listed) ==
  CASE listed = "account" -> {"zpkg:account"}
    [] listed = "read" -> {"zpkg:packages:read"}
    [] listed = "both" -> {"zpkg:account", "zpkg:packages:read"}
    [] OTHER -> {}

delegated_required(v, key) == Present(v, key, "delegated_user_token_required")

(* Mutant: the authorized party is not compared. *)
AnyParty(v, party, scope) ==
  FirstRefusal(
    << <<v.active, unauthorized>>, required_claim(v, "sub"), required_claim(v, "iss"),
       delegated_required(v, "sid"), delegated_required(v, "azp"), delegated_required(v, "parent_jti"),
       <<scope \in Scopes(v.scope), forbidden("insufficient_scope")>> >>)

FromIntrospection(v, party, scope) ==
  FirstRefusal(
    << <<v.active, unauthorized>>,
       required_claim(v, "sub"), <<v.sub = "uuid", unauthorized>>,
       required_claim(v, "iss"),
       Readable(v, "sid"), delegated_required(v, "sid"),
       Readable(v, "azp"), delegated_required(v, "azp"),
       Readable(v, "parent_jti"), delegated_required(v, "parent_jti"),
       <<v.azp = party, forbidden("wrong_authorized_party")>>,
       Readable(v, "scope"), Present(v, "scope", "insufficient_scope"),
       <<scope \in Scopes(v.scope), forbidden("insufficient_scope")>>,
       Readable(v, "auth_realm"), Readable(v, "realm"),
       <<Realm(v) = "customer", forbidden("wrong_auth_realm")>>,
       Readable(v, "display_name"), Readable(v, "avatar_url") >>)

account_from_introspection(v, application_id) ==
  FromIntrospection(v, application_id, "zpkg:account")

package_reader_from_introspection(v) ==
  FromIntrospection(v, "zpkg-cli", "zpkg:packages:read")

(* require_account and require_package_reader: identical up to the verdict.*)
Authenticate(call, accepted) ==
  IF call.bearer = "none" THEN unauthorized
  ELSE IF ~call.client THEN auth_unavailable
  ELSE LET result == introspect_for_audience(call)
       IN  IF result = "verdict" THEN accepted ELSE map_shared_auth_error(result)

require_account(call, v, application_id) ==
  Authenticate(call, account_from_introspection(v, application_id))

require_package_reader(call, v) == Authenticate(call, package_reader_from_introspection(v))

(***************************************************************************)
(* Reading an artifact by digest.  refs are the canonical packages that    *)
(* reference the digest, each [public, member]: its visibility, and        *)
(* whether the caller has a role in its organization or its project.       *)
(* plane is "none" when there is no canonical data plane, the query that   *)
(* fails ("packages", "user", "roles", "version"), or "ok".                *)
(***************************************************************************)
artifact_requires_private_authorization(refs) == refs # {} /\ \A p \in refs : ~p.public

(* Mutant: an outsider is told that the artifact is not his to read. *)
RefuseAloud(call, v, known, refs, plane) ==
  LET reader == require_package_reader(call, v)
  IN  IF plane \in {"none", "packages"} THEN internal
      ELSE IF ~artifact_requires_private_authorization(refs) THEN Ok
      ELSE IF reader # Ok THEN reader
      ELSE IF \E p \in refs : p.member THEN Ok ELSE forbidden("forbidden")

authorize_artifact_read(call, v, known, refs, plane) ==
  LET reader == require_package_reader(call, v)
  IN  IF plane = "none" THEN data_plane_unavailable
      ELSE IF plane = "packages" THEN internal
      ELSE IF ~artifact_requires_private_authorization(refs) THEN Ok
      ELSE IF reader # Ok THEN reader
      ELSE IF plane = "user" THEN internal
      ELSE IF ~known THEN not_found
      ELSE IF plane = "roles" THEN internal
      ELSE IF \E p \in refs : p.member THEN Ok ELSE not_found

(* get_artifact: the version row is looked up once the caller may read it. *)
get_artifact(call, v, known, refs, recorded, plane) ==
  LET authorized == authorize_artifact_read(call, v, known, refs, plane)
  IN  IF authorized # Ok THEN authorized
      ELSE IF plane = "version" THEN internal
      ELSE IF recorded THEN Ok ELSE not_found

-----------------------------------------------------------------------------
(***************************************************************************)
(* One delegated token opens one surface: no verdict is accepted both as a *)
(* browser account and as a package reader, whatever scopes it lists,      *)
(* unless the deployment names the CLI as its web client.  And the answer  *)
(* says who is at fault: 403 only for a token Shared Auth called active,   *)
(* 503 only without a verdict.                                             *)
(***************************************************************************)
OneSurfacePerToken(call, v, application_id) ==
  LET account == require_account(call, v, application_id)
      reader == require_package_reader(call, v)
  IN  /\ account = Ok /\ reader = Ok => application_id = "zpkg-cli"
      /\ \A a \in {account, reader} :
           /\ a.status \in {200, 403} => call.reply = "verdict" /\ v.active
           /\ a.status = 503 => ~call.client \/ ~call.base \/ call.reply # "verdict"

(***************************************************************************)
(* A reader without a role in any package behind a private digest gets,    *)
(* for that digest, exactly the answer of a digest nobody ever published;  *)
(* and no query that fails on the way, nor a caller who is no reader at    *)
(* all, ever opens such a digest.                                          *)
(***************************************************************************)
PrivateArtifactIsConcealed(call, v, known, refs, plane) ==
  LET reader == require_package_reader(call, v) = Ok
      outsider == refs # {} /\ \A p \in refs : ~p.public /\ ~(reader /\ known /\ p.member)
  IN  /\ outsider => get_artifact(call, v, known, refs, TRUE, plane).status # 200
      /\ outsider /\ reader /\ plane = "ok" =>
            get_artifact(call, v, known, refs, TRUE, plane)
              = get_artifact(call, v, known, {}, FALSE, plane)
====
