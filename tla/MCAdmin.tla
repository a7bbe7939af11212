------------------------------- MODULE MCAdmin -------------------------------
(***************************************************************************)
(* The components of the admin that keep state, and the WebSocket rooms    *)
(* for which it sets up the broadcaster, in one run.  They share no        *)
(* variable, and a property of one speaks of no other, so that it is       *)
(* enough to let one of them run in each behaviour: `focus` says which.    *)
(***************************************************************************)
EXTENDS AdminStores, AuditLog, AdminAccounts, AdminMfa, ContentStore, Uploads, SocketManager,
        PolicySync, PublisherLock

VARIABLE focus

\* Each component keeps the types of its variables: the stores, the audit log, the
\* accounts with their sessions, the second factors, the content, the uploads, the rooms,
\* the policies, the publisher's lock.
AdminTypeOK ==
    /\ focus = "stores" => StoreTypeOK
    /\ focus = "audit log" => AuditTypeOK
    /\ focus = "accounts" => AccountsTypeOK
    /\ focus = "second factors" => MfaTypeOK
    /\ focus = "content" => ContentTypeOK
    /\ focus = "uploads" => UploadsTypeOK
    /\ focus = "rooms" => ManagerTypeOK
    /\ focus = "policies" => PolicyTypeOK
    /\ focus = "publishers" => PublisherTypeOK

AdminInit ==
    /\ focus \in {"stores", "audit log", "accounts", "second factors", "content", "uploads",
                  "rooms", "policies", "publishers"}
    /\ StoreInit /\ AuditInit /\ AccountsInit /\ MfaInit /\ ContentInit /\ UploadsInit
    /\ ManagerInit /\ PolicyInit /\ PublisherInit
    /\ focus # "stores" => existed /\ backend = CHOOSE b \in Backends : TRUE

AdminNext ==
    /\ UNCHANGED focus
    /\ \/ /\ focus = "stores" /\ StoreNext
          /\ UNCHANGED <<auditVars, accountVars, mfaVars, contentVars, uploadVars,
                       socketManagerVars, policyVars, publisherVars>>
       \/ /\ focus = "audit log" /\ AuditNext
          /\ UNCHANGED <<storeVars, accountVars, mfaVars, contentVars, uploadVars,
                       socketManagerVars, policyVars, publisherVars>>
       \/ /\ focus = "accounts" /\ AccountsNext
          /\ UNCHANGED <<storeVars, auditVars, mfaVars, contentVars, uploadVars,
                       socketManagerVars, policyVars, publisherVars>>
       \/ /\ focus = "second factors" /\ MfaNext
          /\ UNCHANGED <<storeVars, auditVars, accountVars, contentVars, uploadVars,
                       socketManagerVars, policyVars, publisherVars>>
       \/ /\ focus = "content" /\ ContentNext
          /\ UNCHANGED <<storeVars, auditVars, accountVars, mfaVars, uploadVars,
                       socketManagerVars, policyVars, publisherVars>>
       \/ /\ focus = "uploads" /\ UploadsNext
          /\ UNCHANGED <<storeVars, auditVars, accountVars, mfaVars, contentVars,
                       socketManagerVars, policyVars, publisherVars>>
       \/ /\ focus = "rooms" /\ ManagerNext
          /\ UNCHANGED <<storeVars, auditVars, accountVars, mfaVars, contentVars, uploadVars,
                       policyVars, publisherVars>>
       \/ /\ focus = "policies" /\ PolicyNext
          /\ UNCHANGED <<storeVars, auditVars, accountVars, mfaVars, contentVars, uploadVars,
                       socketManagerVars, publisherVars>>
       \/ /\ focus = "publishers" /\ PublisherNext
          /\ UNCHANGED <<storeVars, auditVars, accountVars, mfaVars, contentVars, uploadVars,
                       socketManagerVars, policyVars>>

adminVars ==
    <<focus, storeVars, auditVars, accountVars, mfaVars, contentVars, uploadVars,
      socketManagerVars, policyVars, publisherVars>>

\* No property of this run needs fairness; that content is published when it is due
\* is checked with MCRuntime.
AdminSpec == AdminInit /\ [][AdminNext]_adminVars
=============================================================================
