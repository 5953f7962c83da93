------------------------ MODULE CustomerSignupProofs ------------------------
(***************************************************************************)
(* Proofs about CustomerSignup, for any number of overlapping invocations, *)
(* accounts and codes.                                                     *)
(***************************************************************************)
EXTENDS CustomerSignup, TLAPS

\* An account that is open to sign in has a password: only complete_signup
\* takes the pending mark off.
OpenHasPassword == user.id # 0 /\ ~user.pending => user.password

\* What an invocation between two calls may still count on, as long as the
\* account it has read is there: an account is not un-verified, and a deleted
\* one never comes back under its old id.
ReadsHold ==
    \A c \in Client :
        /\ inv[c].read.id <= created
        /\ Same(c) => /\ inv[c].pc \in {"customer", "finish"} => user.emailOk
                      /\ inv[c].pc = "finish" => user.id \in customers
                      /\ inv[c].pc = "reset" => user.password

SignupIInv ==
    /\ SignupTypeOK /\ PasswordMeansVerified /\ CompletedHasCustomer
    /\ OpenHasPassword /\ ReadsHold

PCs == {"rest", "delete", "update", "create", "send", "check", "customer", "finish", "reset"}
Read == [id : 0 .. MaxUsers, phone : BOOLEAN, phoneReq : BOOLEAN]
Invocation == [pc : PCs, read : Read, phone : BOOLEAN, channel : Channel]

\* An invocation at rest has read no account.
LEMMA RestRead ==
    /\ Rest.pc = "rest" /\ Rest.read.id = 0
    /\ Rest = [pc |-> "rest", read |-> [id |-> 0, phone |-> FALSE, phoneReq |-> FALSE],
               phone |-> FALSE, channel |-> "email"]
BY DEF Rest, Seen, NoUser

\* An invocation that starts with the account it has read.
LEMMA RestWith ==
    ASSUME SignupTypeOK, NEW pc \in PCs, NEW ch \in Channel
    PROVE  /\ LET s == [Rest EXCEPT !.pc = pc, !.read = Seen(user), !.channel = ch]
              IN  s \in Invocation /\ s.pc = pc /\ s.read.id = user.id
           /\ LET s == [Rest EXCEPT !.pc = pc, !.read = Seen(user)]
              IN  s \in Invocation /\ s.pc = pc /\ s.read.id = user.id
<1>1. Seen(user) \in Read /\ Seen(user).id = user.id
  BY DEF SignupTypeOK, User, Seen, Read
<1>2. Rest \in Invocation
  BY SignupConstants, RestRead DEF Invocation, PCs, Read, Channel
<1> HIDE DEF Rest, Seen
<1> QED BY <1>1, <1>2 DEF Invocation

\* There is no account initially.
LEMMA SignupInitIInv == SignupInit => SignupIInv
BY SignupConstants
   DEF SignupInit, SignupIInv, SignupTypeOK, PasswordMeansVerified, CompletedHasCustomer,
       OpenHasPassword, ReadsHold, Same, User, NoUser, Rest, Seen, Channel

\* An invocation that ends and changes nothing else but codes and counters.
LEMMA EndIInv ==
    ASSUME SignupIInv, NEW c \in Client, inv' = [inv EXCEPT ![c] = Rest],
           UNCHANGED <<user, customers, created>>,
           code' \in [Channel -> 0 .. MaxUsers], codes' \in 0 .. MaxCodes, stops' \in 0 .. MaxStops
    PROVE  SignupIInv'
<1> USE SignupConstants, RestRead
<1> USE DEF SignupIInv, SignupTypeOK, User, Channel
<1>1. SignupTypeOK'
  OBVIOUS
<1>2. ReadsHold'
  BY DEF ReadsHold, Same
<1> QED
  BY <1>1, <1>2 DEF PasswordMeansVerified, CompletedHasCustomer, OpenHasPassword

\* Deleting the account voids what every invocation has read.
LEMMA DeleteIInv ==
    ASSUME SignupIInv, NEW c \in Client, DeleteExpired(c) PROVE SignupIInv'
<1> USE SignupConstants
<1> USE DEF SignupIInv, SignupTypeOK, User, Channel
<1>1. CASE Same(c)
  <2>1. user' = NoUser /\ customers' = customers \ {user.id} /\ inv' = [inv EXCEPT ![c].pc = "create"]
        /\ UNCHANGED <<code, created, codes, stops>>
    BY <1>1 DEF DeleteExpired, Goes
  <2>2. user'.id = 0 /\ ~user'.password /\ user' \in User
    BY <2>1 DEF NoUser
  <2>3. SignupTypeOK'
    BY <2>1, <2>2
  <2>4. ReadsHold'
    BY <2>1, <2>2 DEF ReadsHold, Same
  <2> QED
    BY <2>2, <2>3, <2>4 DEF PasswordMeansVerified, CompletedHasCustomer, OpenHasPassword
<1>2. CASE ~Same(c)
  BY <1>2, EndIInv DEF DeleteExpired, Ends
<1> QED BY <1>1, <1>2

\* Resuming a pending account touches neither its password nor its e-mail.
LEMMA ResumeIInv ==
    ASSUME SignupIInv, NEW c \in Client, ResumePending(c) PROVE SignupIInv'
<1> USE SignupConstants
<1> USE DEF SignupIInv, SignupTypeOK, User, Channel
<1>1. CASE Same(c)
  <2>1. /\ user' = [user EXCEPT !.pending = TRUE, !.phoneReq = inv[c].phone \/ inv[c].read.phone,
                                !.phone = @ \/ inv[c].phone]
        /\ inv' = [inv EXCEPT ![c].pc = "send"]
        /\ UNCHANGED <<customers, code, created, codes, stops>>
    BY <1>1 DEF ResumePending, Goes
  <2>2. /\ user' \in User /\ user'.id = user.id /\ user'.password = user.password
        /\ user'.emailOk = user.emailOk /\ user'.pending
    <3>1. inv[c].phone \in BOOLEAN /\ inv[c].read.phone \in BOOLEAN
      OBVIOUS
    <3> QED BY <2>1, <3>1
  <2>3. SignupTypeOK'
    BY <2>1, <2>2
  <2>4. ReadsHold'
    BY <2>1, <2>2 DEF ReadsHold, Same
  <2> QED
    BY <2>1, <2>2, <2>3, <2>4 DEF PasswordMeansVerified, CompletedHasCustomer, OpenHasPassword
<1>2. CASE ~Same(c)
  BY <1>2, EndIInv DEF ResumePending, Ends
<1> QED BY <1>1, <1>2

\* A new account has an id that no invocation has read.
LEMMA CreateIInv ==
    ASSUME SignupIInv, NEW c \in Client, CreatePending(c) PROVE SignupIInv'
<1> USE SignupConstants
<1> USE DEF SignupIInv, SignupTypeOK, User, Channel
<1>1. CASE user.id = 0
  <2>1. /\ created < MaxUsers /\ created' = created + 1
        /\ user' = [NoUser EXCEPT !.id = created + 1, !.pending = TRUE,
                                  !.phone = inv[c].phone, !.phoneReq = inv[c].phone]
        /\ inv' = [inv EXCEPT ![c].pc = "send"]
        /\ UNCHANGED <<customers, code, codes, stops>>
    BY <1>1 DEF CreatePending, Goes
  <2>2. user' \in User /\ user'.id = created + 1 /\ ~user'.password /\ user'.pending
    <3>1. inv[c].phone \in BOOLEAN /\ created + 1 \in 0 .. MaxUsers
      BY <2>1
    <3>2. user' = [id |-> created + 1, pending |-> TRUE, old |-> FALSE, emailOk |-> FALSE,
                   phone |-> inv[c].phone, phoneOk |-> FALSE, phoneReq |-> inv[c].phone, password |-> FALSE]
      BY <2>1 DEF NoUser
    <3> QED BY <3>1, <3>2
  <2>3. SignupTypeOK'
    BY <2>1, <2>2
  <2>4. ReadsHold'
    BY <2>1, <2>2 DEF ReadsHold, Same
  <2> QED
    BY <2>2, <2>3, <2>4 DEF PasswordMeansVerified, CompletedHasCustomer, OpenHasPassword
<1>2. CASE user.id # 0
  BY <1>2, EndIInv DEF CreatePending, Ends
<1> QED BY <1>1, <1>2

\* Sending a code ends the invocation.
LEMMA SendIInv ==
    ASSUME SignupIInv, NEW c \in Client, SendOtp(c) PROVE SignupIInv'
<1>1. code' \in [Channel -> 0 .. MaxUsers] /\ codes' \in 0 .. MaxCodes /\ stops' = stops
  BY SignupConstants DEF SendOtp, SignupIInv, SignupTypeOK, User, Channel
<1> QED
  BY <1>1, EndIInv DEF SendOtp, Ends, SignupIInv, SignupTypeOK

\* An invocation that starts to check a code counts on nothing yet.
LEMMA VerifyIInv ==
    ASSUME SignupIInv, NEW c \in Client, Verify(c) PROVE SignupIInv'
<1> USE SignupConstants
<1> USE DEF SignupIInv, SignupTypeOK, User
<1>1. PICK ch \in {"email", "phone"} :
        inv' = [inv EXCEPT ![c] = [Rest EXCEPT !.pc = "check", !.read = Seen(user), !.channel = ch]]
  BY DEF Verify
<1> DEFINE s == [Rest EXCEPT !.pc = "check", !.read = Seen(user), !.channel = ch]
<1>2. s \in Invocation /\ s.pc = "check" /\ s.read.id = user.id
  <2>1. SignupTypeOK /\ "check" \in PCs /\ ch \in Channel
    BY DEF PCs, Channel
  <2> HIDE DEF SignupTypeOK
  <2> QED BY <2>1, RestWith, Zenon
<1>3. inv' = [inv EXCEPT ![c] = s] /\ UNCHANGED <<user, customers, code, created, codes, stops>>
  BY <1>1 DEF Verify
<1> HIDE DEF s
<1>4. SignupTypeOK'
  BY <1>2, <1>3 DEF Invocation, PCs, Read
<1>5. ReadsHold'
  BY <1>2, <1>3 DEF ReadsHold, Same, Invocation
<1> QED
  BY <1>3, <1>4, <1>5 DEF PasswordMeansVerified, CompletedHasCustomer, OpenHasPassword

\* An invocation that starts to complete the signup of a verified account.
LEMMA CompleteIInv ==
    ASSUME SignupIInv, NEW c \in Client, Complete(c) PROVE SignupIInv'
<1> USE SignupConstants
<1> USE DEF SignupIInv, SignupTypeOK, User
<1> DEFINE s == [Rest EXCEPT !.pc = "customer", !.read = Seen(user)]
<1>1. s \in Invocation /\ s.pc = "customer" /\ s.read.id = user.id
  BY RestWith DEF PCs, Channel
<1>2. /\ inv' = [inv EXCEPT ![c] = s] /\ user.emailOk
      /\ UNCHANGED <<user, customers, code, created, codes, stops>>
  BY DEF Complete, Ready
<1> HIDE DEF s
<1>3. SignupTypeOK'
  BY <1>1, <1>2 DEF Invocation, PCs, Read
<1>4. ReadsHold'
  BY <1>1, <1>2 DEF ReadsHold, Same, Invocation
<1> QED
  BY <1>2, <1>3, <1>4 DEF PasswordMeansVerified, CompletedHasCustomer, OpenHasPassword

\* What accepting a code does to the account.
LEMMA ConfirmedUser ==
    ASSUME SignupTypeOK, NEW ch \in Channel
    PROVE  LET u == Confirmed(ch)
           IN  /\ u \in User /\ u.id = user.id /\ u.password = user.password
               /\ u.pending = user.pending /\ u.phone = user.phone /\ u.phoneReq = user.phoneReq
               /\ user.emailOk => u.emailOk
<1>1. CASE ch = "email"
  BY <1>1 DEF Confirmed, SignupTypeOK, User
<1>2. CASE ch # "email"
  BY <1>2 DEF Confirmed, SignupTypeOK, User
<1> QED BY <1>1, <1>2

\* An accepted code verifies, and changes nothing that was verified before.
LEMMA VerifyOneIInv ==
    ASSUME SignupIInv, NEW c \in Client, VerifyOne(c) PROVE SignupIInv'
<1> USE SignupConstants
<1> USE DEF SignupIInv, SignupTypeOK
<1> DEFINE ch == inv[c].channel
<1>1. CASE user.id # 0 /\ code[ch] = user.id
  <2>1. /\ user' = Confirmed(ch) /\ code' = [code EXCEPT ![ch] = 0]
        /\ inv' = [inv EXCEPT ![c] = Rest] \/ inv' = [inv EXCEPT ![c].channel = "phone"]
        /\ inv[c].pc = "check"
        /\ UNCHANGED <<customers, created, codes, stops>>
    BY <1>1 DEF VerifyOne, Ends
  <2>2. ch \in Channel
    OBVIOUS
  <2> HIDE DEF ch
  <2>3. /\ user' \in User /\ user'.id = user.id /\ user'.password = user.password
        /\ user'.pending = user.pending /\ (user.emailOk => user'.emailOk)
    BY <2>1, <2>2, ConfirmedUser
  <2>4. SignupTypeOK' /\ ReadsHold'
    <3>1. CASE inv' = [inv EXCEPT ![c] = Rest]
      <4>1. SignupTypeOK'
        BY <2>1, <2>2, <2>3, <3>1, RestRead DEF Channel
      <4>2. ReadsHold'
        BY <2>1, <2>3, <3>1, RestRead DEF ReadsHold, Same
      <4> QED BY <4>1, <4>2
    <3>2. CASE inv' = [inv EXCEPT ![c].channel = "phone"]
      <4>1. SignupTypeOK'
        BY <2>1, <2>2, <2>3, <3>2 DEF Channel
      <4>2. \A k \in Client : inv'[k].pc = inv[k].pc /\ inv'[k].read = inv[k].read
        BY <3>2
      <4>3. ReadsHold'
        BY <2>1, <2>3, <4>2 DEF ReadsHold, Same
      <4> QED BY <4>1, <4>3
    <3> QED BY <2>1, <3>1, <3>2
  <2> QED
    BY <2>1, <2>3, <2>4 DEF PasswordMeansVerified, CompletedHasCustomer, OpenHasPassword
<1>2. CASE ~(user.id # 0 /\ code[ch] = user.id)
  BY <1>2, EndIInv DEF VerifyOne, Ends
<1> QED BY <1>1, <1>2

\* The customers row is made before the account is opened.
LEMMA CustomerIInv ==
    ASSUME SignupIInv, NEW c \in Client, EnsureCustomer(c) PROVE SignupIInv'
<1> USE SignupConstants
<1> USE DEF SignupIInv, SignupTypeOK, User, Channel
<1>1. CASE Same(c)
  <2>1. /\ customers' = customers \cup {user.id} /\ inv' = [inv EXCEPT ![c].pc = "finish"]
        /\ inv[c].pc = "customer" /\ UNCHANGED <<user, code, created, codes, stops>>
    BY <1>1 DEF EnsureCustomer, Goes
  <2>2. SignupTypeOK'
    BY <1>1, <2>1 DEF Same
  <2>3. ReadsHold'
    BY <1>1, <2>1 DEF ReadsHold, Same
  <2> QED
    BY <2>1, <2>2, <2>3 DEF PasswordMeansVerified, CompletedHasCustomer, OpenHasPassword
<1>2. CASE ~Same(c)
  BY <1>2, EndIInv DEF EnsureCustomer, Ends
<1> QED BY <1>1, <1>2

\* A password set on an account that is verified and has its customer.
LEMMA PasswordIInv ==
    ASSUME SignupIInv, NEW c \in Client, inv' = [inv EXCEPT ![c] = Rest],
           user' \in User, user'.id = user.id, user'.emailOk = user.emailOk, user.emailOk,
           user'.password, user.id \in customers,
           UNCHANGED <<customers, code, created, codes, stops>>
    PROVE  SignupIInv'
<1> USE SignupConstants, RestRead
<1> USE DEF SignupIInv, SignupTypeOK
<1>1. SignupTypeOK'
  BY DEF Channel
<1>2. ReadsHold'
  BY DEF ReadsHold, Same
<1> QED
  BY <1>1, <1>2 DEF PasswordMeansVerified, CompletedHasCustomer, OpenHasPassword

LEMMA FinishIInv ==
    ASSUME SignupIInv, NEW c \in Client, FinishSignup(c) PROVE SignupIInv'
<1>1. CASE Same(c)
  <2>1. /\ user' = [user EXCEPT !.password = TRUE, !.pending = FALSE, !.phoneReq = inv[c].read.phoneReq]
        /\ inv' = [inv EXCEPT ![c] = Rest] /\ inv[c].pc = "finish"
        /\ UNCHANGED <<customers, code, created, codes, stops>>
    BY <1>1 DEF FinishSignup, Ends
  <2>2. user.emailOk /\ user.id \in customers
    BY <1>1, <2>1 DEF SignupIInv, ReadsHold
  <2>3. user' \in User /\ user'.id = user.id /\ user'.emailOk = user.emailOk /\ user'.password
    <3>1. inv[c].read.phoneReq \in BOOLEAN
      BY DEF SignupIInv, SignupTypeOK
    <3> QED BY <2>1, <3>1 DEF SignupIInv, SignupTypeOK, User
  <2> QED BY <2>1, <2>2, <2>3, PasswordIInv
<1>2. CASE ~Same(c)
  BY <1>2, EndIInv DEF FinishSignup, Ends, SignupIInv, SignupTypeOK
<1> QED BY <1>1, <1>2

\* A reset begins: the account is open, so it has a password already.
LEMMA VerifyResetIInv ==
    ASSUME SignupIInv, NEW c \in Client, VerifyReset(c) PROVE SignupIInv'
<1> USE SignupConstants
<1> USE DEF SignupIInv, SignupTypeOK
<1>1. PICK ch \in {"email", "phone"} : code' = [code EXCEPT ![ResetCode(ch)] = 0] /\ user' = Confirmed(ch)
  BY DEF VerifyReset
<1>2. /\ user' \in User /\ user'.id = user.id /\ user'.password = user.password
      /\ user'.pending = user.pending /\ (user.emailOk => user'.emailOk)
  BY <1>1, ConfirmedUser DEF Channel
<1>3. code' \in [Channel -> 0 .. MaxUsers]
  BY <1>1 DEF ResetCode, Channel
<1>4. user.id # 0 /\ UNCHANGED <<customers, created, codes, stops>>
  BY DEF VerifyReset
<1>5. CASE user.pending
  <2>1. inv' = [inv EXCEPT ![c] = Rest]
    BY <1>5 DEF VerifyReset
  <2>2. SignupTypeOK'
    BY <1>2, <1>3, <1>4, <2>1, RestRead DEF Channel
  <2>3. ReadsHold'
    BY <1>2, <1>4, <2>1, RestRead DEF ReadsHold, Same
  <2> QED
    BY <1>2, <1>4, <2>2, <2>3 DEF PasswordMeansVerified, CompletedHasCustomer, OpenHasPassword
<1>6. CASE ~user.pending
  <2> DEFINE s == [Rest EXCEPT !.pc = "reset", !.read = Seen(user)]
  <2>1. s \in Invocation /\ s.pc = "reset" /\ s.read.id = user.id
    BY RestWith DEF PCs, Channel
  <2>2. inv' = [inv EXCEPT ![c] = s]
    BY <1>6 DEF VerifyReset
  <2> HIDE DEF s
  <2>3. SignupTypeOK'
    BY <1>2, <1>3, <1>4, <2>1, <2>2 DEF Channel, Invocation, PCs, Read
  <2>4. ReadsHold'
    BY <1>2, <1>4, <1>6, <2>1, <2>2 DEF ReadsHold, Same, Invocation, OpenHasPassword
  <2> QED
    BY <1>2, <1>4, <2>3, <2>4 DEF PasswordMeansVerified, CompletedHasCustomer, OpenHasPassword
<1> QED BY <1>5, <1>6 DEF User

LEMMA ResetIInv ==
    ASSUME SignupIInv, NEW c \in Client, ResetPassword(c) PROVE SignupIInv'
<1>1. CASE Same(c)
  <2>1. /\ user' = [user EXCEPT !.password = TRUE]
        /\ inv' = [inv EXCEPT ![c] = Rest] /\ inv[c].pc = "reset"
        /\ UNCHANGED <<customers, code, created, codes, stops>>
    BY <1>1 DEF ResetPassword, Ends
  <2>2. user.emailOk /\ user.id \in customers
    BY <1>1, <2>1 DEF SignupIInv, ReadsHold, Same, PasswordMeansVerified, CompletedHasCustomer
  <2>3. user' \in User /\ user'.id = user.id /\ user'.emailOk = user.emailOk /\ user'.password
    BY <2>1 DEF SignupIInv, SignupTypeOK, User
  <2> QED BY <2>1, <2>2, <2>3, PasswordIInv
<1>2. CASE ~Same(c)
  BY <1>2, EndIInv DEF ResetPassword, Ends, SignupIInv, SignupTypeOK
<1> QED BY <1>1, <1>2

\* Every call of every function preserves the invariant.
LEMMA SignupNextIInv == SignupIInv /\ [SignupNext]_signupVars => SignupIInv'
<1> SUFFICES ASSUME SignupIInv, [SignupNext]_signupVars
             PROVE  SignupIInv'
  OBVIOUS
<1> USE SignupConstants
<1> USE DEF SignupIInv, SignupTypeOK, PasswordMeansVerified, CompletedHasCustomer,
            OpenHasPassword, ReadsHold, Same, User, Channel
<1>1. CASE UNCHANGED signupVars
  BY <1>1 DEF signupVars
<1>2. ASSUME NEW c \in Client, Request(c) PROVE SignupIInv'
  BY <1>2 DEF Request, Seen
<1>3. ASSUME NEW c \in Client, Stops(c) PROVE SignupIInv'
  <2>1. /\ inv' = [inv EXCEPT ![c] = Rest] /\ UNCHANGED <<user, customers, created>>
        /\ code' \in [Channel -> 0 .. MaxUsers] /\ codes' \in 0 .. MaxCodes /\ stops' \in 0 .. MaxStops
    BY <1>3 DEF Stops, Ends
  <2> HIDE DEF SignupIInv, Channel
  <2> QED BY <2>1, EndIInv
<1>4. CASE RequestReset
  BY <1>4 DEF RequestReset, ResetCode
<1>5. CASE Ages
  BY <1>5 DEF Ages
<1> QED
  BY <1>1, <1>2, <1>3, <1>4, <1>5, DeleteIInv, ResumeIInv, CreateIInv, SendIInv, VerifyIInv,
     VerifyOneIInv, CompleteIInv, CustomerIInv, FinishIInv, VerifyResetIInv, ResetIInv
  DEF SignupNext

(***************************************************************************)
(* An account gets a password only after its e-mail address was verified   *)
(* and its customer exists, however many devices request, verify, complete *)
(* and reset at the same time (auth-otp, *-password-reset).                *)
(***************************************************************************)
THEOREM SignupsVerified ==
    SignupSpec => [](SignupTypeOK /\ PasswordMeansVerified /\ CompletedHasCustomer)
<1>1. SignupIInv => SignupTypeOK /\ PasswordMeansVerified /\ CompletedHasCustomer
  BY DEF SignupIInv
<1> QED BY <1>1, SignupInitIInv, SignupNextIInv, PTL DEF SignupSpec
=============================================================================
