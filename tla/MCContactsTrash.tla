------------------------- MODULE MCContactsTrash --------------------------
EXTENDS ContactsTrash

MCDevices == {"laptop", "phone"}
MCLaptop == {"laptop"}
MCPhone == {"phone"}
=============================================================================
