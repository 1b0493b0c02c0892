-------------------------- MODULE AdminSectionsMC --------------------------
EXTENDS AdminSections

CONSTANTS v, u

\* Sections of one file each, and those with files of their own together.
FilesInTurn == {{"webcam", "card"}, {"database", "conditions"}, {"sky", "columns"},
                {"earthquakes", "database", "branding"}, {"branding", "analytics", "pages"},
                {"layout", "surf", "connection"}}
=============================================================================
