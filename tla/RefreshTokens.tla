--------------------------- MODULE RefreshTokens ---------------------------
(***************************************************************************)
(* The refresh tokens of one account: each login starts a family, a        *)
(* refresh rotates the token it presents, and a token presented after its  *)
(* rotation ends its family. The tabs of a browser refresh concurrently,   *)
(* and a reply may be lost, so any token handed out may come back.         *)
(***************************************************************************)
EXTENDS Naturals, FiniteSets

CONSTANTS
  Token,     \* tokens that may be issued; their number bounds the model
  Family,    \* logins, likewise
  NoFamily,
  NoToken,
  Client     \* concurrent login and refresh requests

ASSUME TokenAssumption == NoFamily \notin Family /\ NoToken \notin Token

VARIABLES
  token,     \* [Token -> "none", "live" (revoked = false) or "revoked"]
  familyId,  \* [Token -> its family]
  expired,   \* tokens whose expiresAt has passed
  disabled,  \* the account is switched off
  started,   \* families whose login has been accepted
  doing,     \* [Client -> "idle", or the statement that comes next]
  shown,     \* [Client -> the token presented]
  session,   \* [Client -> the family the request works for]
  reused,    \* history: families revoked on reuse
  overtaken, \* history: those with a rotation between claim and insert then
  dropped,   \* history: families a request died for after its claim
  presented, \* history: tokens presented so far
  repeated   \* history: families with a token presented more than once

rows == <<token, familyId, expired, disabled>>
calls == <<doing, shown, session>>
past == <<started, reused, overtaken, dropped, presented, repeated>>
tokenVars == <<rows, calls, past>>

TokenInit ==
  /\ token = [k \in Token |-> "none"]
  /\ familyId = [k \in Token |-> NoFamily]
  /\ expired = {} /\ disabled = FALSE
  /\ started = {}
  /\ doing = [c \in Client |-> "idle"]
  /\ shown = [c \in Client |-> NoToken]
  /\ session = [c \in Client |-> NoFamily]
  /\ reused = {} /\ overtaken = {} /\ dropped = {}
  /\ presented = {} /\ repeated = {}

\* login has checked the password and the account; issueTokens comes next.
Login(c, f) ==
  /\ doing[c] = "idle" /\ ~disabled
  /\ f \notin started
  /\ started' = started \cup {f}
  /\ doing' = [doing EXCEPT ![c] = "issue"]
  /\ session' = [session EXCEPT ![c] = f]
  /\ UNCHANGED <<rows, shown, reused, overtaken, dropped, presented, repeated>>

\* What rotate does with the row it has read; an expired token that is not
\* revoked is turned away and leaves no trace.
NextFor(k) ==
  CASE token[k] = "revoked" -> "revoke"
    [] token[k] = "live" /\ k \notin expired -> "claim"
    [] OTHER -> "refuse"

\* rotate reads the presented token and its user.
Present(c, k) ==
  /\ doing[c] = "idle" /\ ~disabled
  /\ token[k] # "none" /\ NextFor(k) # "refuse"
  /\ doing' = [doing EXCEPT ![c] = NextFor(k)]
  /\ shown' = [shown EXCEPT ![c] = k]
  /\ session' = [session EXCEPT ![c] = familyId[k]]
  /\ presented' = presented \cup {k}
  /\ repeated' = IF k \in presented THEN repeated \cup {familyId[k]} ELSE repeated
  /\ UNCHANGED <<rows, started, reused, overtaken, dropped>>

\* Seeded fault: the UPDATE without its condition on revoked.
ClaimsAnyway(k) == TRUE

\* UPDATE ... WHERE id AND revoked = false affects the row.
ClaimMatches(k) == token[k] = "live"

ClaimToken(c) ==
  /\ doing[c] = "claim"
  /\ \/ /\ ClaimMatches(shown[c])
        /\ token' = [token EXCEPT ![shown[c]] = "revoked"]
        /\ doing' = [doing EXCEPT ![c] = "issue"]
     \/ /\ ~ClaimMatches(shown[c])
        /\ doing' = [doing EXCEPT ![c] = "revoke"]
        /\ token' = token
  /\ UNCHANGED <<familyId, expired, disabled, shown, session, past>>

Finish(c) ==
  /\ doing' = [doing EXCEPT ![c] = "idle"]
  /\ shown' = [shown EXCEPT ![c] = NoToken]
  /\ session' = [session EXCEPT ![c] = NoFamily]

\* issueTokens inserts the new token; its family is not looked at again.
Issue(c) ==
  /\ doing[c] = "issue"
  /\ \E k \in Token :
       /\ token[k] = "none"
       /\ token' = [token EXCEPT ![k] = "live"]
       /\ familyId' = [familyId EXCEPT ![k] = session[c]]
  /\ Finish(c)
  /\ UNCHANGED <<expired, disabled, past>>

Issuing(f) == {c \in Client : doing[c] = "issue" /\ session[c] = f}

\* Seeded fault: only the presented token is revoked.
RevokedWithOnly(c) == {shown[c]}

RevokedWith(c) == {k \in Token : familyId[k] = session[c]}

\* revokeFamilyOnReuse.
RevokeFamily(c) ==
  /\ doing[c] = "revoke"
  /\ token' = [k \in Token |-> IF k \in RevokedWith(c) THEN "revoked" ELSE token[k]]
  /\ reused' = reused \cup {session[c]}
  /\ overtaken' = IF Issuing(session[c]) # {} THEN overtaken \cup {session[c]}
                                              ELSE overtaken
  /\ Finish(c)
  /\ UNCHANGED <<familyId, expired, disabled, started, dropped, presented, repeated>>

\* A statement fails or the process dies.
CallDies(c) ==
  /\ doing[c] # "idle"
  /\ dropped' = IF doing[c] = "issue" THEN dropped \cup {session[c]} ELSE dropped
  /\ Finish(c)
  /\ UNCHANGED <<rows, started, reused, overtaken, presented, repeated>>

\* expiresAt passes; nothing asks for it once the token is revoked.
Expire(k) ==
  /\ token[k] = "live" /\ k \notin expired
  /\ expired' = expired \cup {k}
  /\ UNCHANGED <<token, familyId, disabled, calls, past>>

\* disableUser, enableUser.
SetDisabled ==
  /\ disabled' = ~disabled
  /\ UNCHANGED <<token, familyId, expired, calls, past>>

TokenNext ==
  \/ \E c \in Client :
       \/ ClaimToken(c) \/ Issue(c) \/ RevokeFamily(c) \/ CallDies(c)
       \/ \E f \in Family : Login(c, f)
       \/ \E k \in Token : Present(c, k)
  \/ \E k \in Token : Expire(k)
  \/ SetDisabled

TokenSpec == TokenInit /\ [][TokenNext]_tokenVars

(***************************************************************************)
(* Properties                                                              *)
(***************************************************************************)

TokenTypeOK ==
  /\ token \in [Token -> {"none", "live", "revoked"}]
  /\ familyId \in [Token -> Family \cup {NoFamily}]
  /\ expired \in SUBSET Token /\ disabled \in BOOLEAN
  /\ doing \in [Client -> {"idle", "claim", "issue", "revoke"}]
  /\ shown \in [Client -> Token \cup {NoToken}]
  /\ session \in [Client -> Family \cup {NoFamily}]
  /\ started \in SUBSET Family /\ reused \in SUBSET Family
  /\ overtaken \in SUBSET Family /\ dropped \in SUBSET Family
  /\ presented \in SUBSET Token /\ repeated \in SUBSET Family

Live(f) == {k \in Token : familyId[k] = f /\ token[k] = "live"}

\* A session has one live token, or one request about to insert it, never
\* two of either, however many tabs refresh at once (rotate).
OneLivePerFamily ==
  \A f \in Family :
    /\ \A k, l \in Live(f) : k = l
    /\ \A c, d \in Issuing(f) : c = d
    /\ Live(f) = {} \/ Issuing(f) = {}

\* A session ends only because one of its tokens was presented twice or a
\* request died between claim and insert; and it survives its revocation only
\* where a rotation was between the two (rotate, revokeFamilyOnReuse).
SessionEndExplained ==
  \A f \in started :
    /\ Live(f) = {} /\ Issuing(f) = {} => f \in reused \cup dropped
    /\ f \in reused => f \in repeated
    /\ f \in reused /\ Live(f) # {} => f \in overtaken

(***************************************************************************)
(* What a comment in the code says, and the code does not do               *)
(***************************************************************************)

\* revokeFamilyOnReuse: every token in the family is revoked, so that neither
\* holder can continue. A rotation past its claim inserts the next one after.
ReuseEndsFamily == \A f \in reused : Live(f) = {}

=============================================================================
