-------------------------- MODULE MCStorageMigration --------------------------
EXTENDS StorageMigration
===============================================================================
