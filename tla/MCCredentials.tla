--------------------------- MODULE MCCredentials ---------------------------
EXTENDS Credentials

\* Every form, those with a secret typed out of sight included.
AllForms == [to : Places, auth : Ways, key : BOOLEAN, password : BOOLEAN, user : BOOLEAN]
=============================================================================
