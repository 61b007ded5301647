---------------------------- MODULE MCSubmission ----------------------------
EXTENDS Submission
CONSTANTS discovered, failures, products, console, cli

\* sorted(existing); then the discovery tree, products.csv and failures.csv.
MCHashOrder == <<discovered, failures, products>>
MCCopyOrder == <<discovered, products, failures>>
=============================================================================
