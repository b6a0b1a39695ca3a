---------------------------- MODULE MCContactSync ----------------------------
\* One address book of one contact.
EXTENDS ContactBook

MCContactId == 1..3
=============================================================================
