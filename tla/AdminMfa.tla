------------------------------ MODULE AdminMfa ------------------------------
(***************************************************************************)
(* Second factors and one-time tokens of one admin account: enrolment,     *)
(* recovery codes, trusted devices and password reset (AdminAuth in        *)
(* admin/services.py, and the profile and security handlers of             *)
(* admin/dashboard.py), in one worker with a store and no ORM database.    *)
(*                                                                         *)
(* The account's record and the tables of devices and tokens are in memory *)
(* and in the store, but not always the same: the tables are stored with   *)
(* every change, the record when the profile is saved or the sessions are  *)
(* invalidated.  A restart reads the store again.                          *)
(***************************************************************************)
EXTENDS Integers, Sequences, SequencesExt

CONSTANTS DevicesKept,  \* devices per account: 10 in the code
          MaxDrawn,     \* bound: secrets, codes, devices and tokens drawn
          MaxReboots    \* bound: restarts

ASSUME MfaAssumption == DevicesKept \in Nat \ {0} /\ MaxDrawn \in Nat /\ MaxReboots \in Nat

VARIABLES
    mfa,          \* the account's record in memory
    savedRecord,  \* and in the store
    devices,      \* trusted devices in memory, oldest first
    savedDevices, \* and in the store
    resets,       \* password reset tokens in memory
    savedResets,  \* and in the store
    saving,       \* a profile handler has changed the record and will store it
    drawn,        \* random values drawn so far: never twice the same
    reboots,
    revoked,      \* history: devices that were revoked, one by one or all
    spent,        \* history: recovery codes and reset tokens that were accepted
                  \* or replaced
    reread,       \* history: a restart read something spent from the store
    respent       \* history: something spent was accepted again

mfaMemory == <<mfa, devices, resets>>
mfaStore == <<savedRecord, savedDevices, savedResets>>
mfaHistory == <<revoked, spent, reread, respent>>
mfaVars == <<mfaMemory, mfaStore, saving, drawn, reboots, mfaHistory>>

\* A secret is a number, 0 when there is none; recovery codes are numbers too.
Drawn == 1..MaxDrawn
MfaRecord == [secret : 0..MaxDrawn, codes : SUBSET Drawn,
              pending : 0..MaxDrawn, pendingCodes : SUBSET Drawn]
NoMfa == [secret |-> 0, codes |-> {}, pending |-> 0, pendingCodes |-> {}]

MfaTypeOK ==
    /\ mfa \in MfaRecord /\ savedRecord \in MfaRecord
    /\ devices \in Seq(Drawn) /\ Len(devices) <= DevicesKept
    /\ savedDevices \in Seq(Drawn) /\ Len(savedDevices) <= DevicesKept
    /\ resets \subseteq Drawn /\ savedResets \subseteq Drawn
    /\ saving \in BOOLEAN /\ drawn \in 0..MaxDrawn /\ reboots \in 0..MaxReboots
    /\ revoked \subseteq Drawn /\ spent \subseteq Drawn
    /\ reread \in BOOLEAN /\ respent \in BOOLEAN

MfaInit ==
    /\ mfa = NoMfa /\ savedRecord = NoMfa
    /\ devices = <<>> /\ savedDevices = <<>>
    /\ resets = {} /\ savedResets = {}
    /\ saving = FALSE /\ drawn = 0 /\ reboots = 0
    /\ revoked = {} /\ spent = {} /\ reread = FALSE /\ respent = FALSE

Draws == drawn < MaxDrawn /\ drawn' = drawn + 1

Spends(x) == spent' = spent \union {x} /\ respent' = (respent \/ x \in spent)

\* _persist_auth_tokens(): both tables, whichever of them has changed.
PersistAuthTokens == savedResets' = resets' /\ savedDevices' = devices'

-----------------------------------------------------------------------------
(* Enrolment: the profile form *)

\* begin_mfa_setup(): a secret and its recovery codes, which the user is shown.
BeginMfaSetup ==
    /\ Draws
    /\ mfa' = [mfa EXCEPT !.pending = drawn', !.pendingCodes = {drawn'}]
    /\ saving' = TRUE
    /\ UNCHANGED <<devices, resets, mfaStore, reboots, mfaHistory>>

\* confirm_mfa_setup() with the right code: earlier recovery codes are replaced.
ConfirmMfaSetup ==
    /\ mfa.pending # 0
    /\ mfa' = [secret |-> mfa.pending, codes |-> mfa.pendingCodes,
                  pending |-> 0, pendingCodes |-> {}]
    /\ spent' = spent \union mfa.codes
    /\ saving' = TRUE
    /\ UNCHANGED <<devices, resets, mfaStore, drawn, reboots, revoked, reread, respent>>

\* Mutant of WithoutCode: the code that was found stays.
WithCode(r, code) == r

\* consume_recovery_code()
WithoutCode(r, code) == [r EXCEPT !.codes = @ \ {code}]

\* "disable" with a code of the authenticator or a recovery code: the devices stay.
DisableMfa ==
    /\ mfa.secret # 0
    /\ \/ spent' = spent \union mfa.codes /\ UNCHANGED respent
       \/ \E code \in mfa.codes :
             /\ spent' = spent \union mfa.codes
             /\ respent' = (respent \/ code \in spent)
    /\ mfa' = [mfa EXCEPT !.secret = 0, !.codes = {}]
    /\ saving' = TRUE
    /\ UNCHANGED <<devices, resets, mfaStore, drawn, reboots, revoked, reread>>

\* The limiter refuses "disable" when the recovery code is already gone.
DisableIsRefused(code) ==
    /\ mfa.secret # 0 /\ code \in mfa.codes
    /\ mfa' = WithoutCode(mfa, code)
    /\ Spends(code)
    /\ saving' = TRUE
    /\ UNCHANGED <<devices, resets, mfaStore, drawn, reboots, revoked, reread>>

\* The profile handler stores the record, once the mail sender has answered.
SaveMfa ==
    /\ saving
    /\ saving' = FALSE /\ savedRecord' = mfa
    /\ UNCHANGED <<mfaMemory, savedDevices, savedResets, drawn, reboots, mfaHistory>>

-----------------------------------------------------------------------------
(* Signing in with a second factor other than the authenticator's code *)

LoginWithCode(code) ==
    /\ mfa.secret # 0 /\ code \in mfa.codes
    /\ mfa' = WithoutCode(mfa, code)
    /\ Spends(code)
    /\ UNCHANGED <<devices, resets, mfaStore, saving, drawn, reboots, revoked, reread>>

\* consume_trusted_device() stores the table with the device's last use.
LoginWithDevice(d) ==
    /\ mfa.secret # 0 /\ d \in Range(devices)
    /\ UNCHANGED mfaMemory
    /\ PersistAuthTokens
    /\ UNCHANGED <<savedRecord, saving, drawn, reboots, mfaHistory>>

-----------------------------------------------------------------------------
(* Devices and codes: the security handlers *)

Newest(ds) == IF Len(ds) > DevicesKept THEN SubSeq(ds, Len(ds) - DevicesKept + 1, Len(ds)) ELSE ds

IssueTrustedDevice ==
    /\ mfa.secret # 0 /\ Draws
    /\ devices' = Newest(Append(devices, drawn'))
    /\ UNCHANGED <<mfa, resets>>
    /\ PersistAuthTokens
    /\ UNCHANGED <<savedRecord, saving, reboots, mfaHistory>>

RevokeTrustedDevice(d) ==
    /\ \E i \in DOMAIN devices : devices[i] = d /\ devices' = RemoveAt(devices, i)
    /\ revoked' = revoked \union {d}
    /\ UNCHANGED <<mfa, resets>>
    /\ PersistAuthTokens
    /\ UNCHANGED <<savedRecord, saving, drawn, reboots, spent, reread, respent>>

\* revoke_all_trusted_devices() stores the table if it was not empty.
RevokeAllTrustedDevices ==
    /\ devices' = <<>>
    /\ revoked' = revoked \union Range(devices)
    /\ IF devices = <<>> THEN UNCHANGED <<savedDevices, savedResets>> ELSE PersistAuthTokens

\* The handler of regenerate_mfa_recovery_codes() does not store the record.
RegenerateMfaRecoveryCodes ==
    /\ mfa.secret # 0 /\ Draws
    /\ mfa' = [mfa EXCEPT !.codes = {drawn'}]
    /\ spent' = spent \union mfa.codes
    /\ UNCHANGED resets
    /\ RevokeAllTrustedDevices
    /\ UNCHANGED <<savedRecord, saving, reboots, reread, respent>>

\* A new password: invalidate_user_sessions() stores the record.
ChangePassword ==
    /\ UNCHANGED <<mfa, resets>>
    /\ RevokeAllTrustedDevices
    /\ savedRecord' = mfa
    /\ UNCHANGED <<saving, drawn, reboots, spent, reread, respent>>

-----------------------------------------------------------------------------
(* Password reset *)

RequestPasswordReset ==
    /\ Draws
    /\ resets' = resets \union {drawn'}
    /\ UNCHANGED <<mfa, devices>>
    /\ PersistAuthTokens
    /\ UNCHANGED <<savedRecord, saving, reboots, mfaHistory>>

\* reset_password(): the sessions are invalidated, then the token is dropped.
ResetWith(token) ==
    /\ token \in resets
    /\ resets' = resets \ {token} /\ devices' = <<>> /\ UNCHANGED mfa
    /\ savedRecord' = mfa
    /\ PersistAuthTokens
    /\ revoked' = revoked \union Range(devices)
    /\ Spends(token)
    /\ UNCHANGED <<saving, drawn, reboots, reread>>

\* What a restart makes of what is stored by then.
Reads(storedRecord, storedDevices, storedResets) ==
    /\ reboots < MaxReboots /\ reboots' = reboots + 1
    /\ mfa' = storedRecord /\ devices' = storedDevices /\ resets' = storedResets
    /\ savedRecord' = storedRecord /\ savedDevices' = storedDevices /\ savedResets' = storedResets
    /\ saving' = FALSE
    /\ reread' = (reread \/ spent' \intersect
          (storedRecord.codes \union storedRecord.pendingCodes \union storedResets) # {})

Reboot ==
    /\ UNCHANGED <<drawn, revoked, spent, respent>>
    /\ Reads(savedRecord, savedDevices, savedResets)

\* The worker dies in reset_password() before the token is dropped.
ResetDies(token) ==
    /\ token \in resets
    /\ Spends(token)
    /\ Reads(mfa, IF devices = <<>> THEN savedDevices ELSE <<>>, resets)
    /\ revoked' = revoked \union Range(devices)
    /\ UNCHANGED <<drawn>>

-----------------------------------------------------------------------------
MfaNext ==
    \/ BeginMfaSetup \/ ConfirmMfaSetup \/ DisableMfa \/ SaveMfa
    \/ \E x \in Drawn :
          \/ DisableIsRefused(x) \/ LoginWithCode(x) \/ LoginWithDevice(x) \/ RevokeTrustedDevice(x)
          \/ ResetWith(x) \/ ResetDies(x)
    \/ IssueTrustedDevice \/ RegenerateMfaRecoveryCodes \/ ChangePassword
    \/ RequestPasswordReset \/ Reboot

MfaSpec == MfaInit /\ [][MfaNext]_mfaVars

-----------------------------------------------------------------------------
\* A device that was revoked, by itself, with new recovery codes or with a new
\* password, signs nobody in afterwards: not after a restart either, in the
\* middle of a password reset or elsewhere.
RevokedDeviceIsRefused == Range(devices) \intersect revoked = {}

\* A recovery code or reset token is accepted once, and no code that others
\* replaced, unless a restart has read one back that was not yet dropped from
\* the store.
SingleUse == respent => reread

\* Devices, recovery codes and reset tokens admit nobody after they have ended:
\* both of the above.
CredentialsEnd == RevokedDeviceIsRefused /\ SingleUse
=============================================================================
