------------------------------ MODULE MCAccounts ------------------------------
EXTENDS Accounts

CONSTANT Platform
T(person, trusted, ids) == [person |-> person, trusted |-> trusted, ids |-> ids]
\* The administrator's platform signs in without a person, and with him.
Presented == {T(None, Platform, <<Platform>>),
              T(AdminPerson, Platform, <<Platform>>)}
FromWebsite == {}
=============================================================================
