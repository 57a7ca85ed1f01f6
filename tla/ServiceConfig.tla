----------------------------- MODULE ServiceConfig -----------------------------
(***************************************************************************)
(* The service's environment variables and what Run makes of them at       *)
(* start: internal/config and the wiring of internal/app/app.go.  Pure     *)
(* operators; AuthMiddleware has the requests of a service that started.   *)
(* Timeouts and names are left out: a value that is not positive or does   *)
(* not parse becomes a default.                                            *)
(***************************************************************************)

(* auth:  CPM_AUTH_REQUIRED; "on" and "off" are the spellings that are     *)
(*        recognised, "other" any other text.                              *)
(* store: CPM_STORE, in any case.                                          *)
(* The URLs and the token are set to more than blanks, or not.  catalogue: *)
(* the catalogue directory loads; reachable: the NATS server answers; dev: *)
(* the binary is built with the dev tag.                                   *)
Environment == [auth : {"unset", "on", "off", "other"},
                session : BOOLEAN, scans : BOOLEAN, discovery : BOOLEAN, nats : BOOLEAN,
                store : {"unset", "persistence", "memory", "other"},
                persistence : BOOLEAN, token : BOOLEAN,
                catalogue : BOOLEAN, reachable : BOOLEAN, dev : BOOLEAN]

(* Replaces getEnvBool in a mutation run: only what is recognised as true  *)
(* is true.                                                                *)
getEnvBoolStrict(value, fallback) == value = "on" \/ (value = "unset" /\ fallback)

getEnvBool(value, fallback) == value = "on" \/ (value \in {"unset", "other"} /\ fallback)

(* LoadFromEnv: authentication is required unless it is switched off.      *)
AuthRequired(e) == getEnvBool(e.auth, TRUE)

(* The memory store exists in dev builds only; anything else needs the     *)
(* persistence service's URL and token.                                    *)
newPolicyStore(e) ==
    \/ e.store = "memory" /\ e.dev
    \/ e.store \in {"unset", "persistence"} /\ e.persistence /\ e.token

(* withAuthentication's check of its own configuration.                    *)
wiresAuthentication(e) == AuthRequired(e) => e.session

(* Run serves requests only if every part of it starts.                    *)
Run(e) ==
    /\ e.catalogue
    /\ newPolicyStore(e)
    /\ e.nats => e.reachable
    /\ wiresAuthentication(e)
================================================================================
