----------------------------- MODULE Passwords -----------------------------
(***************************************************************************)
(* The password of one user: password_controller.py with its history       *)
(* service, the reset links, and the endpoints of users_controller.py that *)
(* write the same row.  The policy on the characters of a password is left *)
(* out: every password here satisfies it.                                  *)
(***************************************************************************)
EXTENDS Integers, Sequences, Requests

CONSTANTS
    Password,       \* passwords
    RememberLast,   \* history.remember_last of config/password_policy.py
    MaxLinks,       \* bound: reset links mailed
    MaxChanges      \* bound: passwords that the user has had before

ASSUME PasswordBoundsAssumption ==
    RememberLast \in Nat \ {0} /\ MaxLinks \in Nat /\ MaxChanges \in Nat

VARIABLES
    password,   \* users.password
    status,     \* users.status
    token,      \* users.remember_token: a link, Scrambled, or NoToken
    history,    \* password_histories, the newest first
    past,       \* every password the user had before, the newest first
    links,      \* reset links mailed so far
    uses,       \* how often each link has set a password
    bypassed    \* whether a link has set a password: the history is not told

passwordVars == <<password, status, token, history, past, links, uses, bypassed>>

Link      == 1 .. MaxLinks
NoToken   == 0
Scrambled == -1
Entry     == [hash : Password, old : BOOLEAN]

-----------------------------------------------------------------------------
Newest(n, s)  == SubSeq(s, 1, IF Len(s) < n THEN Len(s) ELSE n)
Push(hash, s) == <<[hash |-> hash, old |-> FALSE]>> \o s
Hashes(s)     == {s[k].hash : k \in DOMAIN s}

\* The entries less than a year old.  They come first: a year passes for all
\* that are there.
Young(s) ==
    SubSeq(s, 1, CHOOSE n \in 0 .. Len(s) : \A k \in DOMAIN s : s[k].old <=> k > n)

\* PasswordHistoryService.reused.
Reused(new) == new = password \/ new \in Hashes(Newest(RememberLast, history))

\* PasswordHistoryService.remember: the insert, then what goes by number and
\* what goes by age (retention_days).
RememberMutant(hash) == Newest(RememberLast, history)

Remember(hash) == Young(Newest(RememberLast, Push(hash, history)))

\* get_current_user lets active users in only.
ChangePassword(p, current, new) ==
    /\ Free(p)
    /\ status = "active"
    /\ current = password
    /\ ~Reused(new)
    /\ Go(p, Update("passwords", "change", [password |-> new, old |-> password]))
    /\ UNCHANGED <<raced, passwordVars>>

CommitChange(p) ==
    /\ Pending(p, "passwords") /\ request[p].id = "change"
    /\ Len(past) < MaxChanges
    /\ password' = request[p].write.password
    /\ past' = Push(password, past)
    /\ history' = Remember(request[p].write.old)
    /\ Commit(p, "passwords")
    /\ UNCHANGED <<status, token, links, uses, bypassed>>

YearPasses ==
    /\ \E k \in DOMAIN past : ~past[k].old
    /\ past' = [k \in DOMAIN past |-> [past[k] EXCEPT !.old = TRUE]]
    /\ history' = [k \in DOMAIN history |-> [history[k] EXCEPT !.old = TRUE]]
    /\ UNCHANGED <<password, status, token, links, uses, bypassed, request, raced>>

-----------------------------------------------------------------------------
\* The admin, the customer and the chatbot ask for a link; no status is looked at.
ForgotPassword ==
    /\ links < MaxLinks
    /\ links' = links + 1
    /\ token' = links + 1
    /\ UNCHANGED <<password, status, history, past, uses, bypassed, request, raced>>

\* Nothing looks at the history here, and the link has no date.
ResetPassword(p, link, new) ==
    /\ Free(p)
    /\ token = link
    /\ Go(p, Update("passwords", "reset", [password |-> new, link |-> link]))
    /\ UNCHANGED <<raced, passwordVars>>

CommitResetMutant(p) ==
    /\ Pending(p, "passwords") /\ request[p].id = "reset"
    /\ Len(past) < MaxChanges
    /\ password' = request[p].write.password
    /\ past' = Push(password, past)
    /\ uses' = [uses EXCEPT ![request[p].write.link] = @ + 1]
    /\ bypassed' = TRUE
    /\ Commit(p, "passwords")
    /\ UNCHANGED <<status, token, history, links>>

CommitReset(p) ==
    /\ Pending(p, "passwords") /\ request[p].id = "reset"
    /\ Len(past) < MaxChanges
    /\ password' = request[p].write.password
    /\ token' = NoToken
    /\ past' = Push(password, past)
    /\ uses' = [uses EXCEPT ![request[p].write.link] = @ + 1]
    /\ bypassed' = TRUE
    /\ Commit(p, "passwords")
    /\ UNCHANGED <<status, history, links>>

\* The same column serves revoke_sessions.
RevokeSessions ==
    /\ token' = Scrambled
    /\ UNCHANGED <<password, status, history, past, links, uses, bypassed, request, raced>>

\* update_status; lock and unlock write two of its values.
SetStatus(new) ==
    /\ status # new
    /\ status' = new
    /\ UNCHANGED <<password, token, history, past, links, uses, bypassed, request, raced>>

-----------------------------------------------------------------------------
PasswordsInit ==
    /\ password \in Password
    /\ status = "active"
    /\ token = NoToken
    /\ history = <<>>
    /\ past = <<>>
    /\ links = 0
    /\ uses = [link \in Link |-> 0]
    /\ bypassed = FALSE

PasswordsNext(p) ==
    \/ \E current, new \in Password : ChangePassword(p, current, new)
    \/ CommitChange(p)
    \/ YearPasses
    \/ ForgotPassword
    \/ \E link \in Link, new \in Password : ResetPassword(p, link, new)
    \/ CommitReset(p)
    \/ RevokeSessions
    \/ \E new \in {"active", "suspended", "locked"} : SetStatus(new)

-----------------------------------------------------------------------------
(***************************************************************************)
(* Properties.                                                             *)
(***************************************************************************)
PasswordsTypeOK ==
    /\ password \in Password
    /\ status \in {"active", "suspended", "locked"}
    /\ token \in Link \cup {NoToken, Scrambled}
    /\ history \in Seq(Entry) /\ past \in Seq(Entry)
    /\ links \in 0 .. MaxLinks
    /\ uses \in [Link -> Nat]
    /\ bypassed \in BOOLEAN

(***************************************************************************)
(* "No puedes reutilizar una contrasena reciente": a password differs from *)
(* the RememberLast before it that are less than a year old, as long as    *)
(* changes do not overlap and nobody uses a reset link, which neither asks *)
(* the history nor writes it.                                              *)
(***************************************************************************)
NoRecentReuse ==
    ~bypassed /\ "passwords" \notin raced =>
        LET had == Push(password, past) IN
        \A i, j \in DOMAIN had :
            i < j /\ j <= i + RememberLast /\ ~had[j].old => had[i].hash # had[j].hash

(***************************************************************************)
(* A reset link sets a password once, unless two requests overlap.         *)
(***************************************************************************)
ResetLinkWorksOnce == "passwords" \notin raced => \A link \in Link : uses[link] <= 1
=============================================================================
