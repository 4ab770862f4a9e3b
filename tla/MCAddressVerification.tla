------------------------ MODULE MCAddressVerification ------------------------
EXTENDS AddressVerification
=============================================================================
