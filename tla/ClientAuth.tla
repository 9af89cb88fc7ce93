------------------------------ MODULE ClientAuth ------------------------------
(***************************************************************************)
(* Authentication of exporter and receiver: AuthConfig.Validate and the    *)
(* client options Connect makes of it, both of internal/natsclient.  The   *)
(* credentials of each method go into one record of client options, where  *)
(* methods share fields.                                                   *)
(***************************************************************************)
EXTENDS Naturals, FiniteSetsExt

Methods == {"user", "token", "nkey", "nkey_jwt", "nkey_user_file"}
KeyMethods == {"nkey", "nkey_jwt", "nkey_user_file"}

\* A method is nil, has an empty field, has everything but a seed that is no seed
\* or a file that cannot be read, or is fine.  A seed is a setting itself.
Settings(m) ==
    {"absent", "incomplete", "complete"}
        \cup {s \in {"malformed"} : m \in {"nkey", "nkey_jwt"}}
        \cup {s \in {"unreadable"} : m = "nkey_user_file"}

AuthConfigs == {a \in [Methods -> UNION {Settings(m) : m \in Methods}] :
                   \A m \in Methods : a[m] \in Settings(m)}

NoAuth == [m \in Methods |-> "absent"]

Configured(auth) == {m \in Methods : auth[m] # "absent"}

-----------------------------------------------------------------------------
\* Validate looks at whether a field is there, and parses no seed.
Complete(setting) == setting # "incomplete"

\* A check that forgets one of the NKey methods.
CountForgetsFile(auth) ==
    Cardinality(Configured(auth) \ {"user", "token", "nkey_user_file"}) <= 1

OneKeyMethod(auth) == Cardinality(Configured(auth) \cap KeyMethods) <= 1

ValidAuth(auth) == OneKeyMethod(auth) /\ \A m \in Configured(auth) : Complete(auth[m])

-----------------------------------------------------------------------------
\* The client options each method sets, and the order in which they are set.
Fields == [user           |-> {"username", "password"},
           token          |-> {"token"},
           nkey           |-> {"nkey", "signature"},
           nkey_jwt       |-> {"jwt", "signature"},
           nkey_user_file |-> {"jwt", "signature"}]

Order == <<"user", "token", "nkey", "nkey_jwt", "nkey_user_file">>

OptionNames == UNION {Fields[m] : m \in Methods}
NoOptions == [o \in OptionNames |-> "none"]

\* The methods that write a client option, by their place in the order.  One whose
\* seed is malformed or whose file cannot be read writes nothing.
Writers(auth, o) ==
    {i \in DOMAIN Order : auth[Order[i]] = "complete" /\ o \in Fields[Order[i]]}

\* The method each client option comes from: the last one writes over the others.
AuthOptions(auth) ==
    [o \in OptionNames |->
        LET ws == Writers(auth, o) IN IF ws = {} THEN "none" ELSE Order[Max(ws)]]

\* Some seed is malformed, or the file cannot be read.
AuthError(auth) == \E m \in Methods : auth[m] \in {"malformed", "unreadable"}

=============================================================================
