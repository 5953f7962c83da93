--------------------------- MODULE CustomerSignup ---------------------------
(***************************************************************************)
(* Signing up with verification codes: the auth-otp, request- and          *)
(* verify-password-reset functions on top of Supabase Auth, for one e-mail *)
(* address and one phone number.                                           *)
(*                                                                         *)
(* request creates a pending account (or resumes the pending one) and      *)
(* sends a code; verify checks a code and confirms that channel;           *)
(* complete_signup sets the password of a verified account.  Each function *)
(* reads the account with one call and writes it with another, and several *)
(* devices or retries of one person run at the same time; a function may   *)
(* stop between any two of its calls.  Supabase Auth is external: accounts *)
(* with unique e-mails, one code per channel, each call atomic.            *)
(***************************************************************************)
EXTENDS Naturals, FiniteSets

CONSTANTS
    Client,     \* function invocations that may overlap
    MaxUsers,   \* bound: accounts created
    MaxCodes,   \* bound: codes sent (the rate limit of each operation)
    MaxStops    \* bound: functions that stop half way

ASSUME SignupConstants == {MaxUsers, MaxCodes, MaxStops} \subseteq Nat

Channel == {"email", "phone", "recovery"}

VARIABLES
    user,       \* the auth.users row of the e-mail address
    customers,  \* accounts with a customers row
    code,       \* the account the last code of each channel was sent for
    inv,        \* the invocations: next call, account as read, phone given
    created, codes, stops

signupVars == <<user, customers, code, inv, created, codes, stops>>

\* id 0: no account.  old: created more than PENDING_TTL_MS ago.
NoUser == [id |-> 0, pending |-> FALSE, old |-> FALSE, emailOk |-> FALSE,
           phone |-> FALSE, phoneOk |-> FALSE, phoneReq |-> FALSE, password |-> FALSE]
User   == [id : 0 .. MaxUsers, pending : BOOLEAN, old : BOOLEAN, emailOk : BOOLEAN,
           phone : BOOLEAN, phoneOk : BOOLEAN, phoneReq : BOOLEAN, password : BOOLEAN]

\* What an invocation keeps of the account it has read, and what it was asked.
Seen(u) == [id |-> u.id, phone |-> u.phone, phoneReq |-> u.phoneReq]
Rest    == [pc |-> "rest", read |-> Seen(NoUser), phone |-> FALSE, channel |-> "email"]

SignupTypeOK ==
    /\ user \in User
    /\ customers \subseteq 1 .. MaxUsers
    /\ code \in [Channel -> 0 .. MaxUsers]
    /\ inv \in [Client -> [pc : {"rest", "delete", "update", "create", "send", "check",
                                 "customer", "finish", "reset"},
                           read : [id : 0 .. MaxUsers, phone : BOOLEAN, phoneReq : BOOLEAN],
                           phone : BOOLEAN, channel : Channel]]
    /\ created \in 0 .. MaxUsers /\ codes \in 0 .. MaxCodes /\ stops \in 0 .. MaxStops
    /\ user.id <= created

SignupInit ==
    /\ user = NoUser /\ customers = {}
    /\ code = [ch \in Channel |-> 0]
    /\ inv = [c \in Client |-> Rest]
    /\ created = 0 /\ codes = 0 /\ stops = 0

Goes(c, pc) == inv' = [inv EXCEPT ![c].pc = pc]
Ends(c)     == inv' = [inv EXCEPT ![c] = Rest]
\* The account an invocation has read is still there.
Same(c)     == user.id # 0 /\ user.id = inv[c].read.id

----------------------------------------------------------------------------
\* auth-otp, action "request".

\* requestAuthOtp calls the function; resolveAuthUserId and getAuthUser read
\* the account, and the function decides what to do.  An account that is not
\* pending is refused with ACCOUNT_EXISTS.
Request(c) ==
    /\ inv[c].pc = "rest" /\ (user.id = 0 \/ user.pending)
    /\ \E ph \in BOOLEAN, ch \in {"email", "phone"} :
          /\ ch = "phone" => ph
          /\ inv' = [inv EXCEPT ![c] =
                [pc |-> CASE user.id = 0 -> "create"
                          [] user.id # 0 /\ user.old  -> "delete"
                          [] user.id # 0 /\ ~user.old -> "update",
                 read |-> Seen(user), phone |-> ph, channel |-> ch]]
    /\ UNCHANGED <<user, customers, code, created, codes, stops>>

\* A pending account older than a day is deleted and made anew; a customers
\* row it had loses its link (ON DELETE SET NULL).
DeleteExpired(c) ==
    /\ inv[c].pc = "delete"
    /\ IF Same(c) THEN /\ user' = NoUser /\ customers' = customers \ {user.id}
                       /\ Goes(c, "create")
       ELSE UNCHANGED <<user, customers>> /\ Ends(c)
    /\ UNCHANGED <<code, created, codes, stops>>

\* A younger one is resumed: marked pending, the phone added if it has none.
ResumePending(c) ==
    LET needs == inv[c].phone \/ inv[c].read.phone
    IN  /\ inv[c].pc = "update"
        /\ IF Same(c) THEN /\ user' = [user EXCEPT !.pending = TRUE, !.phoneReq = needs,
                                                   !.phone = @ \/ inv[c].phone]
                           /\ Goes(c, "send")
           ELSE UNCHANGED user /\ Ends(c)
        /\ UNCHANGED <<customers, code, created, codes, stops>>

\* createUser, refused when the e-mail has an account by now.
CreatePending(c) ==
    /\ inv[c].pc = "create"
    /\ IF user.id = 0
       THEN /\ created < MaxUsers /\ created' = created + 1
            /\ user' = [NoUser EXCEPT !.id = created + 1, !.pending = TRUE,
                                      !.phone = inv[c].phone, !.phoneReq = inv[c].phone]
            /\ Goes(c, "send")
       ELSE UNCHANGED <<user, created>> /\ Ends(c)
    /\ UNCHANGED <<customers, code, codes, stops>>

\* Mutation: the rate limit is not enforced.
SendOtpUnlimited(c) ==
    /\ inv[c].pc = "send"
    /\ IF user.id # 0 /\ (inv[c].channel = "phone" => user.phone)
       THEN code' = [code EXCEPT ![inv[c].channel] = user.id] /\ codes' = codes + 1
       ELSE UNCHANGED <<code, codes>>
    /\ Ends(c)
    /\ UNCHANGED <<user, customers, created, stops>>

\* sendSignupOtp: one code, for the account that has the identifier now.
SendOtp(c) ==
    /\ inv[c].pc = "send"
    /\ IF user.id # 0 /\ (inv[c].channel = "phone" => user.phone) /\ codes < MaxCodes
       THEN code' = [code EXCEPT ![inv[c].channel] = user.id] /\ codes' = codes + 1
       ELSE UNCHANGED <<code, codes>>
    /\ Ends(c)
    /\ UNCHANGED <<user, customers, created, stops>>

----------------------------------------------------------------------------
\* auth-otp, actions "verify" and "complete_signup".

\* verifyAuthOtp: refused once the signup is complete.
Verify(c) ==
    /\ inv[c].pc = "rest" /\ user.id # 0 /\ user.pending
    /\ \E ch \in {"email", "phone"} :
          /\ code[ch] # 0
          /\ inv' = [inv EXCEPT ![c] = [Rest EXCEPT !.pc = "check", !.read = Seen(user), !.channel = ch]]
    /\ UNCHANGED <<user, customers, code, created, codes, stops>>

\* The account once a code of the channel was accepted.
Confirmed(ch) == IF ch = "email" THEN [user EXCEPT !.emailOk = TRUE]
                 ELSE [user EXCEPT !.phoneOk = TRUE]

\* verifyOne: Supabase Auth checks the code, uses it up and confirms the
\* channel.  A code of a deleted account is void; an answer that names another
\* account than the one read ends the call with OTP_IDENTITY_MISMATCH.  With
\* both codes in the body the phone is next, and nobody asks again whether the
\* signup is pending.
VerifyOne(c) ==
    LET ch == inv[c].channel
    IN  /\ inv[c].pc = "check"
        /\ IF user.id # 0 /\ code[ch] = user.id
           THEN /\ user' = Confirmed(ch)
                /\ code' = [code EXCEPT ![ch] = 0]
                /\ \/ Ends(c)
                   \/ ch = "email" /\ Same(c) /\ inv' = [inv EXCEPT ![c].channel = "phone"]
           ELSE UNCHANGED <<user, code>> /\ Ends(c)
        /\ UNCHANGED <<customers, created, codes, stops>>

\* Mutation: whether the e-mail was verified is not asked.
ReadyUnchecked(u) == u.id # 0 /\ u.pending /\ (u.phoneReq => u.phoneOk)

\* What complete_signup asks of the account it has read.
Ready(u) == u.id # 0 /\ u.pending /\ u.emailOk /\ (u.phoneReq => u.phoneOk)

\* completeAuthSignup.
Complete(c) ==
    /\ inv[c].pc = "rest" /\ Ready(user)
    /\ inv' = [inv EXCEPT ![c] = [Rest EXCEPT !.pc = "customer", !.read = Seen(user)]]
    /\ UNCHANGED <<user, customers, code, created, codes, stops>>

\* Mutation: a failed provisioning is passed over.
EnsureCustomerIgnored(c) ==
    /\ inv[c].pc = "customer" /\ Goes(c, "finish")
    /\ customers' \in {customers, IF Same(c) THEN customers \cup {user.id} ELSE customers}
    /\ UNCHANGED <<user, code, created, codes, stops>>

\* ensure_customer_for_user, which needs the account.
EnsureCustomer(c) ==
    /\ inv[c].pc = "customer"
    /\ IF Same(c) THEN customers' = customers \cup {user.id} /\ Goes(c, "finish")
       ELSE UNCHANGED customers /\ Ends(c)
    /\ UNCHANGED <<user, code, created, codes, stops>>

\* updateUserById: the password, and the metadata as it was read with the
\* pending mark taken off.  The session that follows changes nothing here.
FinishSignup(c) ==
    /\ inv[c].pc = "finish" /\ Ends(c)
    /\ user' = IF Same(c)
               THEN [user EXCEPT !.password = TRUE, !.pending = FALSE,
                                 !.phoneReq = inv[c].read.phoneReq]
               ELSE user
    /\ UNCHANGED <<customers, code, created, codes, stops>>

----------------------------------------------------------------------------
\* The password reset functions.  A reset by e-mail has a code of its own; a
\* reset by phone uses the same SMS code as the signup.

ResetCode(ch) == IF ch = "email" THEN "recovery" ELSE "phone"

RequestReset ==
    /\ \E ch \in {"email", "phone"} :
          /\ user.id # 0 /\ (ch = "phone" => user.phone) /\ codes < MaxCodes
          /\ code' = [code EXCEPT ![ResetCode(ch)] = user.id] /\ codes' = codes + 1
    /\ UNCHANGED <<user, customers, inv, created, stops>>

\* verifyOtp confirms the channel as well; an account that is still pending
\* is refused, its code used up.
VerifyReset(c) ==
    /\ inv[c].pc = "rest" /\ user.id # 0
    /\ \E ch \in {"email", "phone"} :
          /\ code[ResetCode(ch)] = user.id
          /\ code' = [code EXCEPT ![ResetCode(ch)] = 0]
          /\ user' = Confirmed(ch)
    /\ inv' = [inv EXCEPT ![c] = IF user.pending THEN Rest
                                 ELSE [Rest EXCEPT !.pc = "reset", !.read = Seen(user)]]
    /\ UNCHANGED <<customers, created, codes, stops>>

\* updateUser within the recovery session.
ResetPassword(c) ==
    /\ inv[c].pc = "reset" /\ Ends(c)
    /\ user' = IF Same(c) THEN [user EXCEPT !.password = TRUE] ELSE user
    /\ UNCHANGED <<customers, code, created, codes, stops>>

----------------------------------------------------------------------------
\* The environment.

\* A day passes.
Ages ==
    /\ user.id # 0 /\ ~user.old /\ user' = [user EXCEPT !.old = TRUE]
    /\ UNCHANGED <<customers, code, inv, created, codes, stops>>

\* A function stops: it is killed, or its next call fails.
Stops(c) ==
    /\ inv[c].pc # "rest" /\ stops < MaxStops /\ stops' = stops + 1
    /\ Ends(c)
    /\ UNCHANGED <<user, customers, code, created, codes>>

SignupNext ==
    \/ \E c \in Client :
          \/ Request(c) \/ DeleteExpired(c) \/ ResumePending(c) \/ CreatePending(c) \/ SendOtp(c)
          \/ Verify(c) \/ VerifyOne(c)
          \/ Complete(c) \/ EnsureCustomer(c) \/ FinishSignup(c)
          \/ VerifyReset(c) \/ ResetPassword(c)
          \/ Stops(c)
    \/ RequestReset
    \/ Ages

SignupSpec == SignupInit /\ [][SignupNext]_signupVars

----------------------------------------------------------------------------
\* Properties.

\* An account has a password only after its e-mail address was verified,
\* whatever account was deleted and made anew while complete_signup ran.
PasswordMeansVerified == user.password => user.emailOk

\* An account whose signup was completed has its customer: provisioning comes
\* before the account is opened, and a deleted account takes its customer along.
CompletedHasCustomer ==
    user.id # 0 /\ user.password => user.id \in customers
=============================================================================
