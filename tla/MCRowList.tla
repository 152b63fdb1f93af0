------------------------------ MODULE MCRowList ------------------------------
EXTENDS RowList
=============================================================================
