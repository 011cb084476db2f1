------------------------------- MODULE MCCodes -------------------------------
(***************************************************************************)
(* A small instance for TLC of the three services that issue codes: to     *)
(* verify an email, to verify a phone, and to recover a password.  They    *)
(* share no row but the account's, so they are explored side by side: a    *)
(* behaviour belongs to one of them, and side says which.  Email brings    *)
(* its lemmas along, for module CodesProofs.                               *)
(***************************************************************************)
EXTENDS PasswordResetSafety, TLC

CONSTANTS NewUsers, Emails, Phones, None, Patience

VARIABLES side, person, message, stage, local, reader, mail, progress, open

\* Recovery is explored for one tick more than the others.
Phone == INSTANCE RegistrationSafety
    WITH account <- person, code <- message, pc <- stage, ctx <- local,
         Users <- NewUsers, MaxTime <- MaxTime - 1

Email == INSTANCE EmailVerificationProofs
    WITH account <- reader, code <- mail, pc <- progress, ctx <- open,
         MaxTime <- MaxTime - 1

ASSUME CodeConstantsAreValid ==
    ConstantsAreValid /\ Phone!ConstantsAreValid /\ Email!ConstantsAreValid

resetVars == <<account, code, pc, ctx>>
phoneVars == <<person, message, stage, local>>
emailVars == <<reader, mail, progress, open>>

CodesInit == Init /\ Phone!Init /\ Email!Init /\ side \in {"recovery", "phone", "email"}

CodesNext ==
    /\ UNCHANGED side
    /\ \/ side = "recovery" /\ Next /\ UNCHANGED <<phoneVars, emailVars>>
       \/ side = "phone" /\ Phone!Next /\ UNCHANGED <<resetVars, emailVars>>
       \/ side = "email" /\ Email!Next /\ UNCHANGED <<resetVars, phoneVars>>

CodesSpec == CodesInit /\ [][CodesNext]_<<now, side, resetVars, phoneVars, emailVars>>

\* An account is registered whole, with its role and its first code, and shares
\* neither address nor phone (register).
AccountsAreWhole == Phone!AccountsAreWhole

\* A phone is verified by one code, the newest (verify of the phone service).
VerifiedByTheNewest == Phone!VerifiedByTheNewest

\* An account has one active code, the newest that was delivered, and none once its
\* address is verified (resend, verify).
NewestUntilVerified == Email!NewestUntilVerified

\* The hourly limit and the cooldown hold for any hour, of recovery and of a phone
\* (_may_issue, resend); of an email they need not.
CodesAreLimited == IssuingIsLimited /\ Phone!IssuingIsLimited

\* Requests and rows are interchangeable.
Interchangeable == Permutations(Requests) \cup Permutations(Codes) \cup Permutations(NewUsers)
                       \cup Permutations(Phones)
=============================================================================
