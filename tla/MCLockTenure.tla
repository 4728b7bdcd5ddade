---------------------------- MODULE MCLockTenure ----------------------------
EXTENDS LockTenure, MCPayApp
=============================================================================
