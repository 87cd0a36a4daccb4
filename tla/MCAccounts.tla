----------------------------- MODULE MCAccounts -----------------------------
(* The parts of the program an account goes through: signing in, the codes    *)
(* sent by mail, the limiter in front of them, and provisioning with          *)
(* invitations and roles; and a machine, enrolling as an agent.  They share no *)
(* state, so a behaviour is of one of them, and one run looks at all five.    *)
EXTENDS Identity, Codes, SignIn, RateLimit, Enrolment, TLC

VARIABLE part
vars == <<part, identityVars, codesVars, signInVars, limiterVars, enrolmentVars>>

\* Ann is the platform administrator; Bob signs in with two providers.
MCIdentities == {[uid |-> "u1", email |-> "ann"], [uid |-> "u2", email |-> "bob"],
                 [uid |-> "u3", email |-> "bob"]}
\* Two machines of one name, and two organizations that may have them.
MCMachines == {<<"host", 1>>, <<"host", 2>>}
MCTokens == {<<"o1", 1>>, <<"o2", 1>>}
\* The requests of every part have the same names.
Interchangeable == Permutations(Sessions)

Init ==
    /\ part \in {"identity", "codes", "signin", "limiter", "enrolment"}
    /\ IdentityInit /\ CodesInit /\ SignInInit /\ LimiterInit /\ EnrolmentInit
    /\ part # "codes" => kind = "reset"
    /\ part # "signin" => mfa = {}

Next ==
    \/ /\ part = "identity" /\ IdentityNext
       /\ UNCHANGED <<part, codesVars, signInVars, limiterVars, enrolmentVars>>
    \/ /\ part = "codes" /\ CodesNext
       /\ UNCHANGED <<part, identityVars, signInVars, limiterVars, enrolmentVars>>
    \/ /\ part = "signin" /\ SignInNext
       /\ UNCHANGED <<part, identityVars, codesVars, limiterVars, enrolmentVars>>
    \/ /\ part = "limiter" /\ LimiterNext
       /\ UNCHANGED <<part, identityVars, codesVars, signInVars, enrolmentVars>>
    \/ /\ part = "enrolment" /\ EnrolmentNext
       /\ UNCHANGED <<part, identityVars, codesVars, signInVars, limiterVars>>

Spec == Init /\ [][Next]_vars

\* Every row, request, challenge and bucket is of its kind, in the part that moves.
AccountsTypeOK ==
    /\ part = "identity" => IdentityTypeOK
    /\ part = "codes" => CodesTypeOK
    /\ part = "signin" => SignInTypeOK
    /\ part = "limiter" => LimiterTypeOK
    /\ part = "enrolment" => EnrolmentTypeOK
=============================================================================
