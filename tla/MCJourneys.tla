---------------------------- MODULE MCJourneys ----------------------------
EXTENDS Journeys

\* Every form and view of the site, tried twice.
MCForms == AllForms
=============================================================================
